---- MODULE Spec2Model ----
(***************************************************************************)
(* KUOTA: credential and usage synchronization engine.                     *)
(*                                                                         *)
(* State: the SQLite tables accounts, usage_history and usage_detail, the  *)
(* wall clock, and one record per in-flight async handler (the scheduler   *)
(* tick autoRefreshAll and the HTTP handlers that refresh usage).  Every   *)
(* action is the code that runs between two awaits of a handler: the body  *)
(* of a response continuation, with the HTTP response drawn from a small   *)
(* set.  Beside them: the /api rate limiter (its map, the middleware in    *)
(* front of the handlers, the periodic cleanup) and the scheduler's        *)
(* interval timer with the settings its interval is computed from.         *)
(*                                                                         *)
(* Representation: github_orgs (a comma-joined string in the database) is  *)
(* kept as the sequence that split(",").filter(Boolean) yields; percentage *)
(* is kept in tenths of a percent; tokens are positive integers and 0 is   *)
(* the empty string.                                                       *)
(***************************************************************************)
EXTENDS FiniteSets, Integers, Sequences, TLC

\* ------------------------------------------------------------------ bounds
NumAccounts == 2      \* rows of the accounts table
MaxMonths == 1        \* month boundaries the wall clock may cross
MaxClock == 60        \* minutes the wall clock may advance
MaxIssued == 4        \* tokens the OAuth token endpoint may issue
MaxText == 3          \* the tokens that are encrypted and decrypted
MaxDays == 6          \* days of the month fetched by getClaudeCodeMonthUsage
MaxPages == 2         \* pages one day's report may have
MaxIds == 6           \* accounts on the dashboard of the refresh-all pool

\* ---------------------------------------------------------------- constants
REFRESH_BUFFER_MS == 5      \* minutes (5 * 60 * 1000 ms)
DefaultExpiresIn == 60      \* minutes (data.expires_in || 3600 seconds)
ClockStep == 30             \* minutes by which the model advances the clock
FirstIssued == 5            \* tokens 1..4 are the ones users supply
StartYear == 2025           \* the wall clock starts in December 2025
StartMonth == 12

CLAUDE_CODE_BUDGETS == [api |-> 100, pro |-> 20, max |-> 100, team |-> 150, enterprise |-> 500]

PLAN_LIMITS ==
  [free |-> 50, pro |-> 300, pro_plus |-> 1500, business |-> 300, enterprise |-> 1000]

Plans == {"free", "pro", "pro_plus", "business", "enterprise"}

Orgs == {"A", "B"}

\* organization memberships and stored github_orgs lists of the model
OrgLists == { <<>>, <<"A">>, <<"A", "B">> }

AccountIds == 1..NumAccounts

\* ------------------------------------------------------------ small helpers
RECURSIVE SumSeq(_)
SumSeq(s) == IF s = <<>> THEN 0 ELSE Head(s) + SumSeq(Tail(s))

Range(s) == { s[i] : i \in 1..Len(s) }

\* String.prototype.toLowerCase on the product names that occur
ToLower(str) ==
  CASE str = "Copilot" -> "copilot"
    [] str = "COPILOT" -> "copilot"
    [] str = "Actions" -> "actions"
    [] OTHER -> str

\* Math.round(x / y) for non-negative x and positive y
RoundDiv(x, y) == (2 * x + y) \div (2 * y)

\* -------------------------------------------------------- provider payloads
\* usageItems of a billing answer; 0 and "" stand for a missing field
Item(product, gross, qty, model, sku) ==
  [product |-> product, grossQuantity |-> gross, quantity |-> qty,
   model |-> model, sku |-> sku]

NoItems == <<>>
OtherItems == << Item("actions", 7, 0, "", "minutes") >>
GptItems == << Item("Copilot", 50, 0, "gpt", "") >>
PlainItems == << Item("copilot", 0, 120, "", "") >>
TwoItems == << Item("copilot", 30, 0, "gpt", ""), Item("copilot", 0, 10, "", "claude") >>

Payloads == { NoItems, OtherItems, GptItems, PlainItems, TwoItems }

\* an HTTP call either throws (non-OK status, network failure, timeout) or
\* answers with a payload
Response(ok, items) == [ok |-> ok, usageItems |-> items]

Responses == { Response(TRUE, d) : d \in Payloads } \cup { Response(FALSE, NoItems) }

\* item.grossQuantity || item.quantity || 0
ItemQty(i) == IF i.grossQuantity # 0 THEN i.grossQuantity ELSE i.quantity

CopilotItems_All(data) == data

CopilotItems(data) ==
  SelectSeq(data, LAMBDA i : i.product # "" /\ ToLower(i.product) = "copilot")

Percentage(gross, planLimit) ==
  IF planLimit > 0 THEN RoundDiv(gross * 1000, planLimit) ELSE 0

RECURSIVE ModelsOf(_)
ModelsOf(items) ==
  IF items = <<>> THEN <<>>
  ELSE LET i == Head(items)
           rest == ModelsOf(Tail(items))
       IN IF i.model # "" \/ i.sku # ""
          THEN << [model |-> IF i.model # "" THEN i.model ELSE i.sku,
                   quantity |-> ItemQty(i)] >> \o rest
          ELSE rest

RECURSIVE QtysOf(_)
QtysOf(items) ==
  IF items = <<>> THEN <<>> ELSE << ItemQty(Head(items)) >> \o QtysOf(Tail(items))

parseUsageData(data, planLimit) ==
  LET items == CopilotItems(data)
      gross == SumSeq(QtysOf(items))
  IN [grossQuantity |-> gross,
      percentage |-> Percentage(gross, planLimit),
      models |-> ModelsOf(items)]

\* the inline aggregation of the organization general-billing answer
parseOrgBilling(data, planLimit) ==
  LET gross == SumSeq(QtysOf(CopilotItems(data)))
  IN [grossQuantity |-> gross,
      percentage |-> Percentage(gross, planLimit),
      models |-> <<>>]

ZeroUsage == [grossQuantity |-> 0, percentage |-> 0, models |-> <<>>]

\* PLAN_LIMITS[plan] || 300
PlanLimit(plan) == IF plan \in DOMAIN PLAN_LIMITS THEN PLAN_LIMITS[plan] ELSE 300

\* ------------------------------------------------------------------ crypto
\* aes-256-gcm under the process key: the ciphertext is the plaintext shifted
\* by a key stream that depends on the nonce, and the tag authenticates nonce
\* and ciphertext.  "iv:tag:ciphertext" is the record [iv, tag, ct].
CipherMod == 16 + 7

IVs == {1, 2}

KeyStream(iv) == (5 * iv + 3) % CipherMod

AuthTag(iv, ct) == (7 * ct + 3 * iv + 1) % CipherMod

NoCipher == [iv |-> 0, tag |-> 0, ct |-> 0]

encrypt(text, iv) ==
  IF text = 0 THEN NoCipher
  ELSE LET ct == (text + KeyStream(iv)) % CipherMod
       IN [iv |-> iv, tag |-> AuthTag(iv, ct), ct |-> ct]

decrypt_WrongStream(data) ==
  IF data = NoCipher THEN 0
  ELSE IF data.tag # AuthTag(data.iv, data.ct) THEN 0
  ELSE (data.ct + CipherMod - KeyStream(data.iv + 1)) % CipherMod

decrypt(data) ==
  IF data = NoCipher THEN 0
  ELSE IF data.tag # AuthTag(data.iv, data.ct) THEN 0
  ELSE (data.ct + CipherMod - KeyStream(data.iv)) % CipherMod

\* The same two functions on the string itself, kept as the fields that
\* split(":") yields; << >> is the empty string.
\* `${iv}:${tag}:${encrypted}`
Joined(c) == IF c = NoCipher THEN << >> ELSE << c.iv, c.tag, c.ct >>

encryptText(text, iv) == Joined(encrypt(text, iv))

\* the body of the try block: [ivHex, tagHex, encrypted] = data.split(":")
\* takes the first three fields; Buffer.from(undefined) throws when there are
\* fewer, decipher.final() throws when the tag does not authenticate
Decipher(fields) ==
  IF Len(fields) < 3 THEN [ok |-> FALSE, text |-> 0]
  ELSE LET c == [iv |-> fields[1], tag |-> fields[2], ct |-> fields[3]]
       IN IF c.tag # AuthTag(c.iv, c.ct) THEN [ok |-> FALSE, text |-> 0]
          ELSE [ok |-> TRUE, text |-> decrypt(c)]

Caught_Rethrown(r) == [out |-> r.text, threw |-> ~r.ok]

\* catch (e) { ...; return ""; }
Caught(r) == [out |-> IF r.ok THEN r.text ELSE 0, threw |-> FALSE]

\* decrypt(data): what it returns and whether it threw
decryptText(fields) ==
  IF fields = << >> THEN [out |-> 0, threw |-> FALSE]
  ELSE Caught(Decipher(fields))

\* ---------------------------------------------------------------- database
VARIABLES
  accounts,        \* table accounts: id -> row
  usage_history,   \* table usage_history: set of rows
  usage_detail,    \* table usage_detail: rows in insertion order
  nextHistoryId,   \* AUTOINCREMENT counter of usage_history
  today,           \* wall clock, calendar part: [year, month]
  clock,           \* wall clock, Date.now() in minutes
  issued,          \* number of tokens the OAuth token endpoint has issued
  userOrgs,        \* GitHub: the organizations the token's user belongs to
  proc,            \* in-flight handlers: slot -> local variables
  refreshAllIds,   \* ids in the last answer of POST /refresh-all
  lastFetch,       \* history: the handler whose usage fetch settled last
  rateLimitMap,    \* Map key -> {start, count}, as entries in insertion order
  activeFlows,     \* Map flowId -> device flow, as flowId -> status
  lastReq,         \* history: the last request to /api and what became of it
  windows,         \* history: key -> the window of its non-GET requests
  app_settings,    \* table app_settings: the value of auto_refresh_minutes
  env,             \* process.env.AUTO_REFRESH_MINUTES
  timers,          \* the runtime's registered interval timers: handle -> ms
  autoRefreshTimer, \* let autoRefreshTimer: a handle, or 0 for null
  pool,            \* the dashboard's refreshAll(): its closure variables
  applied          \* a function applied to drawn arguments: what went in and out

\* the state of the /api middleware and of the scheduler's timer
apiVars == << rateLimitMap, activeFlows, lastReq, windows >>

timerVars == << app_settings, env, timers, autoRefreshTimer >>

auxVars == << pool, applied >>

vars == << accounts, usage_history, usage_detail, nextHistoryId, today, clock,
           issued, userOrgs, proc, refreshAllIds, lastFetch,
           rateLimitMap, activeFlows, lastReq, windows,
           app_settings, env, timers, autoRefreshTimer, pool, applied >>

NoAccount ==
  [id |-> 0, github_username |-> "", account_type |-> "", is_paused |-> FALSE,
   is_favorite |-> FALSE,
   copilot_plan |-> "", billing_org |-> "", github_orgs |-> <<>>,
   claude_plan |-> "", monthly_budget |-> 0,
   oauth_token |-> NoCipher,
   pat_token |-> NoCipher, claude_cf_clearance |-> NoCipher,
   claude_token_expires_at |-> 0]

\* the logins the provider knows; the account with id i starts as UserName(i)
UserNames == << "u1", "u2", "u3", "u4", "u5", "u6", "u7", "u8" >>

UserName(i) == UserNames[i]

NoRow == [id |-> 0, account_id |-> 0, year |-> 0, month |-> 0,
          gross_quantity |-> 0, plan_limit |-> 0, percentage |-> 0]

\* the tables as one value, so that a handler step is a function on it
DB == [accounts |-> accounts, usage_history |-> usage_history,
       usage_detail |-> usage_detail, nextHistoryId |-> nextHistoryId,
       today |-> today, clock |-> clock, issued |-> issued]

getAccountById(db, id) ==
  IF id \in DOMAIN db.accounts THEN db.accounts[id] ELSE NoAccount

\* ORDER BY is_favorite DESC, is_paused ASC, id ASC
Before(a, b) ==
  \/ a.is_favorite /\ ~b.is_favorite
  \/ a.is_favorite = b.is_favorite /\ ~a.is_paused /\ b.is_paused
  \/ a.is_favorite = b.is_favorite /\ a.is_paused = b.is_paused /\ a.id < b.id

getAllAccounts(db) ==
  LET rows == { db.accounts[i] : i \in DOMAIN db.accounts }
  IN [i \in 1..Cardinality(rows) |->
        CHOOSE r \in rows : Cardinality({ q \in rows : Before(q, r) }) = i - 1]

\* UPDATE accounts SET is_paused = CASE WHEN is_paused = 1 THEN 0 ELSE 1 END
togglePause(db, id) ==
  IF id \notin DOMAIN db.accounts THEN db
  ELSE [db EXCEPT !.accounts[id].is_paused = ~@]

\* UPDATE accounts SET ... WHERE id = ?  (fields: a record of columns)
updateAccount(db, id, fields) ==
  IF id \notin DOMAIN db.accounts THEN db
  ELSE [db EXCEPT !.accounts[id] =
          [c \in DOMAIN @ |-> IF c \in DOMAIN fields THEN fields[c] ELSE @[c]]]

\* ... WHERE github_username = ?
getAccountByUsername(db, username) ==
  IF \E i \in DOMAIN db.accounts : db.accounts[i].github_username = username
  THEN db.accounts[CHOOSE i \in DOMAIN db.accounts :
                     db.accounts[i].github_username = username]
  ELSE NoAccount

\* a column without the unique index
UniqueFails_Off(db, id, fields) == FALSE

\* github_username is unique: an INSERT or UPDATE that would give a second row
\* the same github_username throws
UniqueFails(db, id, fields) ==
  /\ "github_username" \in DOMAIN fields
  /\ \E j \in DOMAIN db.accounts \ {id} :
        db.accounts[j].github_username = fields.github_username

UniqueError == "UNIQUE constraint failed"

\* try { user = await getUser(key); updateAccount(id, { github_username:
\* user.login, ... }) } catch (err) { console.warn(...) }
setUserInfo(db, id, user) ==
  IF ~user.ok \/ UniqueFails(db, id, [github_username |-> user.login]) THEN db
  ELSE updateAccount(db, id, [github_username |-> user.login])

\* the id of the next INSERT (no row is deleted where rows are inserted)
NextAccountId(db) ==
  IF DOMAIN db.accounts = {} THEN 1
  ELSE 1 + CHOOSE m \in DOMAIN db.accounts : \A i \in DOMAIN db.accounts : i <= m

\* INSERT INTO accounts (github_username, ..., oauth_token, pat_token,
\* copilot_plan); the other columns take their defaults
createAccount(db, fields) ==
  LET id == NextAccountId(db)
  IN [db EXCEPT !.accounts =
        (id :> [NoAccount EXCEPT !.id = id, !.account_type = "copilot",
                                 !.github_username = fields.github_username,
                                 !.oauth_token = fields.oauth_token,
                                 !.pat_token = fields.pat_token,
                                 !.copilot_plan = fields.copilot_plan]) @@ @]

\* DELETE FROM accounts WHERE id = ?; with PRAGMA foreign_keys = ON the
\* onDelete: "cascade" references take the account's usage_history rows and
\* the usage_detail rows of those rows with it
deleteAccount_NoCascade(db, id) ==
  [db EXCEPT !.accounts = [i \in DOMAIN @ \ {id} |-> @[i]]]

deleteAccount(db, id) ==
  LET gone == { r.id : r \in { q \in db.usage_history : q.account_id = id } }
  IN [db EXCEPT
        !.accounts = [i \in DOMAIN @ \ {id} |-> @[i]],
        !.usage_history = { r \in @ : r.account_id # id },
        !.usage_detail = SelectSeq(@, LAMBDA d : d.history_id \notin gone)]

\* usage_history.account_id references accounts.id: the INSERT of a row for an
\* account that is not there throws
ForeignKeyError == "FOREIGN KEY constraint failed"

ForeignKeyFails(db, v) == v.account_id \notin DOMAIN db.accounts

SameKey(r, v) ==
  r.account_id = v.account_id /\ r.year = v.year /\ r.month = v.month

\* a plain INSERT: no conflict target
upsert_AlwaysInsert(db, v) ==
  [db EXCEPT !.usage_history = @ \cup
     { [id |-> db.nextHistoryId, account_id |-> v.account_id,
        year |-> v.year, month |-> v.month,
        gross_quantity |-> v.gross_quantity, plan_limit |-> v.plan_limit,
        percentage |-> v.percentage] },
   !.nextHistoryId = @ + 1]

\* INSERT ... ON CONFLICT DO NOTHING: the first values stay
upsert_KeepFirst(db, v) ==
  IF \E r \in db.usage_history : SameKey(r, v) THEN db
  ELSE upsert_AlwaysInsert(db, v)

\* INSERT ... ON CONFLICT (account_id, year, month) DO UPDATE SET <all others>
upsertUsageHistory(db, v) ==
  IF \E r \in db.usage_history : SameKey(r, v)
  THEN [db EXCEPT !.usage_history =
          { IF SameKey(r, v)
              THEN [r EXCEPT !.gross_quantity = v.gross_quantity,
                             !.plan_limit = v.plan_limit,
                             !.percentage = v.percentage]
              ELSE r : r \in @ }]
  ELSE [db EXCEPT !.usage_history = @ \cup
          { [id |-> db.nextHistoryId, account_id |-> v.account_id,
             year |-> v.year, month |-> v.month,
             gross_quantity |-> v.gross_quantity, plan_limit |-> v.plan_limit,
             percentage |-> v.percentage] },
        !.nextHistoryId = @ + 1]

Later(r, s) == r.year > s.year \/ (r.year = s.year /\ r.month > s.month)

\* ... ORDER BY id LIMIT 1, without the WHERE clause
getLatestUsage_AnyAccount(db, account_id) ==
  IF db.usage_history = {} THEN NoRow
  ELSE CHOOSE r \in db.usage_history : \A s \in db.usage_history : r.id <= s.id

\* ... WHERE account_id = ? ORDER BY year DESC, month DESC LIMIT 1
getLatestUsage(db, account_id) ==
  LET rows == { r \in db.usage_history : r.account_id = account_id }
  IN IF rows = {} THEN NoRow
     ELSE CHOOSE r \in rows : \A s \in rows : ~Later(s, r)

clearUsageDetails(db, history_id) ==
  [db EXCEPT !.usage_detail = SelectSeq(@, LAMBDA d : d.history_id # history_id)]

insertUsageDetail(db, d) == [db EXCEPT !.usage_detail = Append(@, d)]

getUsageDetails(db, history_id) ==
  SelectSeq(db.usage_detail, LAMBDA d : d.history_id = history_id)

RECURSIVE InsertModels(_, _, _)
InsertModels(db, history_id, models) ==
  IF models = <<>> THEN db
  ELSE InsertModels(
         insertUsageDetail(db, [history_id |-> history_id,
                                model |-> Head(models).model,
                                quantity |-> Head(models).quantity]),
         history_id, Tail(models))

\* --------------------------------------------------------- handler locals
NoSaved == [account_id |-> 0, year |-> 0, month |-> 0, gross_quantity |-> 0,
            plan_limit |-> 0, percentage |-> 0]

\* "tick" and "tick2": two runs of autoRefreshAll; "req1" and "req2": two requests
Procs == {"tick", "tick2", "req1", "req2"}

NoToken == [accessToken |-> 0, refreshToken |-> 0, expiresAt |-> 0, refreshed |-> FALSE]

\* kind: the handler ("tick" autoRefreshAll, "refresh" POST /refresh/:id,
\* "edit" PUT /account/:id); pc: the await it is suspended at.
\* calls, misses, anyOk, anyErr, hit, result, saved, attempted, threw and
\* unrecorded are history variables: they record what the handler did and are
\* never read by it (saved: the values of its last upsertUsageHistory call;
\* gvt: the arguments of its last getValidToken call, the time of the call,
\* what needsRefresh answered, the exchanges made, the token endpoint's last
\* answer and the time of that answer, and whether the refresh token given
\* was no longer the account's stored one at the time of the call).
NoCall ==
  [made |-> FALSE, given |-> NoToken, at |-> 0, needed |-> FALSE, exchanges |-> 0,
   grant |-> "", expires_in |-> 0, answeredAt |-> 0, replaced |-> FALSE]

Idle ==
  [kind |-> "none", pc |-> "idle", id |-> 0, acc |-> NoAccount,
   outerBillingOrg |-> "", billingOrg |-> "", allOrgs |-> <<>>, plan |-> "",
   year |-> 0, month |-> 0, ep |-> "", org |-> "", scan |-> FALSE, scanIdx |-> 0,
   tkn |-> NoToken, updates |-> NoToken, err |-> "",
   snapshot |-> <<>>, idx |-> 0,
   calls |-> <<>>, misses |-> 0, anyOk |-> FALSE, anyErr |-> FALSE, hit |-> FALSE,
   result |-> ZeroUsage, saved |-> NoSaved, attempted |-> <<>>, threw |-> {},
   unrecorded |-> FALSE, gvt |-> NoCall, refused |-> FALSE, free |-> FALSE]

Saved(l, v) == [l EXCEPT !.saved = v]

\* a handler step maps the tables and the locals to new tables and locals
Out(db, l) == [db |-> db, l |-> l]

Call(ep, org) == [ep |-> ep, org |-> org]

\* ------------------------------------------------ fetchAndStoreUsage (Copilot)
UsageValues(l, parsed) ==
  [account_id |-> l.id, year |-> l.year, month |-> l.month,
   gross_quantity |-> parsed.grossQuantity, plan_limit |-> PlanLimit(l.plan),
   percentage |-> parsed.percentage]

\* a persist step that adds its detail rows to the ones that are there
StoreDetails_NoClear(db, account_id, models) ==
  LET usage == getLatestUsage(db, account_id)
  IN IF usage # NoRow /\ models # <<>>
     THEN InsertModels(db, usage.id, models)
     ELSE db

\* upsert the row, then replace the detail rows of the latest row when the
\* result carries a model breakdown
StoreDetails(db, account_id, models) ==
  LET usage == getLatestUsage(db, account_id)
  IN IF usage # NoRow /\ models # <<>>
     THEN InsertModels(clearUsageDetails(db, usage.id), usage.id, models)
     ELSE db

saveUsage(db, l, parsed) ==
  StoreDetails(upsertUsageHistory(db, UsageValues(l, parsed)), l.id, parsed.models)

Send(l, ep, org) ==
  [l EXCEPT !.pc = "probe", !.ep = ep, !.org = org,
            !.calls = Append(@, Call(ep, org))]

\* a scan decided by the billing org alone
shouldScanOrgs_NoPlan(l) == l.billingOrg # ""

shouldScanOrgs(l) ==
  l.billingOrg # "" \/ l.plan = "business" \/ l.plan = "enterprise"

RECURSIVE TickLoop(_, _)
RECURSIVE RefreshBegin(_, _, _)

\* a tick whose loop is left by the first exception
RefreshEnd_Abort(db, l, err) ==
  IF err # "" THEN Out(db, [l EXCEPT !.pc = IF l.kind = "tick" THEN "done" ELSE "failed",
                                     !.threw = @ \cup {l.id}, !.err = err])
  ELSE IF l.kind = "tick" THEN TickLoop(db, [l EXCEPT !.idx = @ + 1])
  ELSE IF l.acc.account_type = "copilot" THEN Out(db, [l EXCEPT !.pc = "postOrgs"])
  ELSE Out(db, [l EXCEPT !.pc = "done"])

\* refreshAccount has returned (err = "") or thrown: the awaiting caller resumes
RefreshEnd(db, l, err) ==
  IF l.kind = "tick"
  THEN \* try { await refreshAccount(acc) } catch { log }: next account
       TickLoop(db, [l EXCEPT !.threw = IF err # "" THEN @ \cup {l.id} ELSE @,
                             !.idx = @ + 1])
  ELSE IF err # ""
  THEN Out(db, [l EXCEPT !.pc = "failed", !.err = err])
  ELSE IF l.acc.account_type = "copilot"
  THEN Out(db, [l EXCEPT !.pc = "postOrgs"])
  ELSE Out(db, [l EXCEPT !.pc = "done"])

\* a try block of a handler has finished: by return (err = "") or by throw
Settle(db, l, err) ==
  IF l.kind = "oauth" THEN Out(db, [l EXCEPT !.pc = "done"])
  ELSE IF l.kind = "add"
  THEN Out(db, [l EXCEPT !.pc = IF err # "" THEN "failed" ELSE "done", !.err = err])
  ELSE IF l.kind = "edit" THEN Out(db, [l EXCEPT !.pc = "done"])
  ELSE RefreshEnd(db, l, err)

\* fetchAndStoreUsage has returned
UsageEnd(db, l) ==
  IF l.kind \in {"edit", "add", "oauth"} THEN Out(db, [l EXCEPT !.pc = "done"])
  ELSE IF l.outerBillingOrg # "" \/ l.acc.github_orgs # <<>>
  THEN Out(db, [l EXCEPT !.pc = "activity"])
  ELSE RefreshEnd(db, l, "")

\* a chain that ends without writing anything when no source had usage
NoUsage_Skip(db, l) == UsageEnd(db, l)

\* no source had usage: the zero row
NoUsage(db, l) ==
  IF ForeignKeyFails(db, UsageValues(l, ZeroUsage))
  THEN Settle(db, l, ForeignKeyError)
  ELSE UsageEnd(upsertUsageHistory(db, UsageValues(l, ZeroUsage)),
                Saved(l, UsageValues(l, ZeroUsage)))

\* for (const org of allOrgs) from position i on
RECURSIVE ScanFrom(_, _, _)
ScanFrom(db, l, i) ==
  IF i > Len(l.allOrgs) THEN NoUsage(db, l)
  ELSE IF l.allOrgs[i] = l.billingOrg THEN ScanFrom(db, l, i + 1)
  ELSE Out(db, Send([l EXCEPT !.scan = TRUE, !.scanIdx = i], "org_pr_user", l.allOrgs[i]))

StartScan(db, l) ==
  IF shouldScanOrgs(l)
  THEN IF l.allOrgs = <<>> THEN Out(db, [l EXCEPT !.pc = "scanOrgs"])
       ELSE ScanFrom(db, l, 1)
  ELSE NoUsage(db, l)

\* a chain that goes from the filtered endpoint straight to general billing
Miss_SkipUnfiltered(db, l) ==
  CASE l.ep = "org_pr_user" -> Out(db, Send(l, "org_bill", l.org))
    [] l.ep = "org_pr" -> Out(db, Send(l, "org_bill", l.org))
    [] l.ep = "org_bill" ->
         IF l.scan THEN ScanFrom(db, l, l.scanIdx + 1)
         ELSE Out(db, Send(l, "user_pr", ""))
    [] l.ep = "user_pr" -> Out(db, Send(l, "user_bill", ""))
    [] l.ep = "user_bill" -> StartScan(db, l)

\* the probed source threw or had grossQuantity = 0: up to the next await
Miss(db, l) ==
  CASE l.ep = "org_pr_user" -> Out(db, Send(l, "org_pr", l.org))
    [] l.ep = "org_pr" -> Out(db, Send(l, "org_bill", l.org))
    [] l.ep = "org_bill" ->
         IF l.scan THEN ScanFrom(db, l, l.scanIdx + 1)
         ELSE Out(db, Send(l, "user_pr", ""))
    [] l.ep = "user_pr" -> Out(db, Send(l, "user_bill", ""))
    [] l.ep = "user_bill" -> StartScan(db, l)

\* a scan hit that overwrites billing_org whatever it was
Hit_AlwaysWrites(db, l, parsed) ==
  LET db1 == saveUsage(db, l, parsed)
      db2 == IF l.scan THEN updateAccount(db1, l.id, [billing_org |-> l.org]) ELSE db1
  IN UsageEnd(db2, Saved([l EXCEPT !.hit = TRUE, !.result = parsed],
                         UsageValues(l, parsed)))

\* the probed source had grossQuantity > 0; a saveUsage that throws is caught
\* with the source's other errors
Hit(db, l, parsed) ==
  LET db1 == saveUsage(db, l, parsed)
      db2 == IF l.scan /\ l.billingOrg = ""
             THEN updateAccount(db1, l.id, [billing_org |-> l.org])
             ELSE db1
  IN IF ForeignKeyFails(db, UsageValues(l, parsed))
     THEN Miss(db, [l EXCEPT !.misses = @ + 1])
     ELSE UsageEnd(db2, Saved([l EXCEPT !.hit = TRUE, !.result = parsed],
                              UsageValues(l, parsed)))

ProbeResult(db, l, resp) ==
  IF ~resp.ok THEN Miss(db, [l EXCEPT !.anyErr = TRUE, !.misses = @ + 1])
  ELSE LET parsed == IF l.ep = "org_bill"
                     THEN parseOrgBilling(resp.usageItems, PlanLimit(l.plan))
                     ELSE parseUsageData(resp.usageItems, PlanLimit(l.plan))
           l1 == [l EXCEPT !.anyOk = TRUE]
       IN IF parsed.grossQuantity > 0 THEN Hit(db, l1, parsed)
          ELSE Miss(db, [l1 EXCEPT !.misses = @ + 1])

\* fetchAndStoreUsage(accountId, username, pat, plan, billingOrg) up to its
\* first await
UsageBegin(db, l, plan, billingOrg) ==
  LET known == l.id \in DOMAIN db.accounts
      bo == IF billingOrg # "" THEN billingOrg
            ELSE IF known THEN db.accounts[l.id].billing_org ELSE ""
      l1 == [l EXCEPT !.year = db.today.year, !.month = db.today.month,
                      !.plan = plan, !.billingOrg = bo,
                      !.allOrgs = IF known THEN db.accounts[l.id].github_orgs ELSE <<>>,
                      !.scan = FALSE, !.scanIdx = 0]
  IN IF bo # "" THEN Out(db, Send(l1, "org_pr_user", bo))
     ELSE Out(db, Send(l1, "user_pr", ""))

\* ------------------------------------------------------- Claude Code usage
\* parseClaudeCodeData(getClaudeCodeMonthUsage(...)): the month summary, or a
\* throw inside the try block of fetchAndStoreClaudeUsage
ClaudeReport(ok, cost, models) == [ok |-> ok, totalCostUSD |-> cost, models |-> models]

ClaudeReports ==
  { ClaudeReport(FALSE, 0, <<>>), ClaudeReport(TRUE, 0, <<>>),
    ClaudeReport(TRUE, 10, << [model |-> "sonnet", quantity |-> 70] >>) }

\* acc.monthly_budget || CLAUDE_CODE_BUDGETS[acc.claude_plan] || 100
Budget(acc) ==
  IF acc.monthly_budget # 0 THEN acc.monthly_budget
  ELSE IF acc.claude_plan \in DOMAIN CLAUDE_CODE_BUDGETS
  THEN CLAUDE_CODE_BUDGETS[acc.claude_plan] ELSE 100

ClaudeValues(l, report) ==
  [account_id |-> l.id, year |-> l.year, month |-> l.month,
   gross_quantity |-> report.totalCostUSD, plan_limit |-> Budget(l.acc),
   percentage |-> Percentage(report.totalCostUSD, Budget(l.acc))]

fetchAndStoreClaudeUsage(db, l, report) ==
  IF ~report.ok THEN Out(db, [l EXCEPT !.anyErr = TRUE])
  ELSE IF ForeignKeyFails(db, ClaudeValues(l, report)) THEN Out(db, l)
  ELSE Out(StoreDetails(upsertUsageHistory(db, ClaudeValues(l, report)),
                        l.id, report.models),
           Saved([l EXCEPT !.result = [ZeroUsage EXCEPT !.models = report.models]],
                 ClaudeValues(l, report)))

\* ------------------------------------------------- Claude Web usage, tokens
\* GET /api/oauth/usage: [ok, weeklyUsagePct]
WebUsage(ok, pct) == [ok |-> ok, weeklyUsagePct |-> pct]

WebUsages == { WebUsage(FALSE, 0), WebUsage(TRUE, 0), WebUsage(TRUE, 35) }

WebValues(l, data) ==
  [account_id |-> l.id, year |-> l.year, month |-> l.month,
   gross_quantity |-> 0, plan_limit |-> 0, percentage |-> 10 * data.weeklyUsagePct]

fetchAndStoreClaudeWebUsage(db, l, data) ==
  IF ~data.ok THEN Out(db, [l EXCEPT !.anyErr = TRUE])
  ELSE IF ForeignKeyFails(db, WebValues(l, data)) THEN Out(db, l)
  ELSE Out(upsertUsageHistory(db, WebValues(l, data)), Saved(l, WebValues(l, data)))

\* a test against the expiry itself, without the buffer
needsRefresh_NoBuffer(expiresAt, now) ==
  IF expiresAt = 0 THEN TRUE ELSE now >= expiresAt

needsRefresh(expiresAt, now) ==
  IF expiresAt = 0 THEN TRUE ELSE now >= expiresAt - REFRESH_BUFFER_MS

\* answers of the OAuth token endpoint to grant_type=refresh_token;
\* rotate: whether the answer carries a new refresh_token
ExpiresIns == { 0, 4, 5, 10 }

ExchangeOutcomes ==
  { [status |-> "ok", rotate |-> TRUE, expires_in |-> e] : e \in ExpiresIns }
  \cup
  { [status |-> "ok", rotate |-> FALSE, expires_in |-> 0],
    [status |-> "invalid_grant", rotate |-> FALSE, expires_in |-> 0],
    [status |-> "error", rotate |-> FALSE, expires_in |-> 0] }

\* refreshAccessToken(refreshToken) on an OK answer
refreshAccessToken(db, refreshToken, outcome) ==
  [accessToken |-> FirstIssued + db.issued,
   refreshToken |-> IF outcome.rotate THEN FirstIssued + db.issued + 1 ELSE refreshToken,
   expiresIn |-> IF outcome.expires_in # 0 THEN outcome.expires_in ELSE DefaultExpiresIn]

Stored(db, id, tkn) ==
  /\ id \in DOMAIN db.accounts
  /\ decrypt(db.accounts[id].pat_token) = tkn.accessToken
  /\ decrypt(db.accounts[id].claude_cf_clearance) = tkn.refreshToken
  /\ db.accounts[id].claude_token_expires_at = tkn.expiresAt

\* the access token goes out on a call to the usage endpoint
\* (getClaudeWebUsage or verifyAccessToken); pc is the await of that call
SendUsage(db, l, pc) ==
  [l EXCEPT !.pc = pc,
            !.year = db.today.year, !.month = db.today.month,
            !.unrecorded = @ \/ (l.tkn.refreshed /\ ~Stored(db, l.id, l.tkn))]

\* the refresh token rt is not the one stored for the account (history)
Replaced(db, id, rt) ==
  rt # 0 /\ decrypt(getAccountById(db, id).claude_cf_clearance) # rt

\* a getValidToken that exchanges whenever it has a refresh token
ClaudeWebBegin_AlwaysExchange(db, l, key, rt, expiresAt) ==
  LET given == [accessToken |-> key, refreshToken |-> rt,
                expiresAt |-> expiresAt, refreshed |-> FALSE]
      l1 == [l EXCEPT !.tkn = given,
                      !.gvt = [NoCall EXCEPT !.made = TRUE, !.given = given,
                                             !.at = db.clock,
                                             !.needed = needsRefresh(expiresAt, db.clock),
                                             !.replaced = Replaced(db, l.id, rt)]]
  IN IF rt = 0 THEN Out(db, SendUsage(db, l1, "webUsage"))
     ELSE Out(db, [l1 EXCEPT !.pc = "exchange"])

\* getValidToken(key, rt, expiresAt) up to its await, then the caller
ClaudeWebBegin(db, l, key, rt, expiresAt) ==
  LET given == [accessToken |-> key, refreshToken |-> rt,
                expiresAt |-> expiresAt, refreshed |-> FALSE]
      l1 == [l EXCEPT !.tkn = given,
                      !.gvt = [NoCall EXCEPT !.made = TRUE, !.given = given,
                                             !.at = db.clock,
                                             !.needed = needsRefresh(expiresAt, db.clock),
                                             !.replaced = Replaced(db, l.id, rt)]]
  IN IF ~needsRefresh(expiresAt, db.clock) THEN Out(db, SendUsage(db, l1, "webUsage"))
     ELSE IF rt = 0 THEN Settle(db, l1, "Token expired and no refresh token")
     ELSE Out(db, [l1 EXCEPT !.pc = "exchange"])

RefreshBegin_NoKeyTest(db, l, acc) ==
  LET key == decrypt(acc.pat_token)
      l1 == [l EXCEPT !.id = acc.id, !.acc = acc, !.calls = <<>>, !.misses = 0,
                      !.anyOk = FALSE, !.anyErr = FALSE, !.hit = FALSE,
                      !.result = ZeroUsage, !.saved = NoSaved, !.tkn = NoToken,
                      !.year = 0, !.month = 0, !.plan = "", !.billingOrg = "",
                      !.outerBillingOrg = "", !.allOrgs = <<>>, !.ep = "",
                      !.org = "", !.scan = FALSE, !.scanIdx = 0, !.gvt = NoCall]
  IN IF acc.account_type = "claude_code"
     THEN Out(db, [l1 EXCEPT !.pc = "claudeUsage", !.year = db.today.year,
                             !.month = db.today.month])
     ELSE IF acc.account_type = "claude_web"
     THEN ClaudeWebBegin(db, l1, key, decrypt(acc.claude_cf_clearance),
                         acc.claude_token_expires_at)
     ELSE Out(db, [l1 EXCEPT !.pc = "getUser"])

\* ----------------------------------------------------------- refreshAccount
RefreshBegin(db, l, acc) ==
  LET key == decrypt(acc.pat_token)
      l1 == [l EXCEPT !.id = acc.id, !.acc = acc, !.calls = <<>>, !.misses = 0,
                      !.anyOk = FALSE, !.anyErr = FALSE, !.hit = FALSE,
                      !.result = ZeroUsage, !.saved = NoSaved, !.tkn = NoToken,
                      !.year = 0, !.month = 0, !.plan = "", !.billingOrg = "",
                      !.outerBillingOrg = "", !.allOrgs = <<>>, !.ep = "",
                      !.org = "", !.scan = FALSE, !.scanIdx = 0, !.gvt = NoCall]
  IN IF key = 0 THEN RefreshEnd(db, l1, "")
     ELSE IF acc.account_type = "claude_code"
     THEN Out(db, [l1 EXCEPT !.pc = "claudeUsage", !.year = db.today.year,
                             !.month = db.today.month])
     ELSE IF acc.account_type = "claude_web"
     THEN ClaudeWebBegin(db, l1, key, decrypt(acc.claude_cf_clearance),
                         acc.claude_token_expires_at)
     ELSE Out(db, [l1 EXCEPT !.pc = "getUser"])

\* a loop without the is_paused test
TickLoop_NoSkip(db, l) ==
  IF l.idx > Len(l.snapshot) THEN Out(db, [l EXCEPT !.pc = "done"])
  ELSE RefreshBegin(db, [l EXCEPT !.attempted = Append(@, l.snapshot[l.idx].id)],
                    l.snapshot[l.idx])

\* for (const acc of accounts) from position l.idx on, up to the next await
TickLoop(db, l) ==
  IF l.idx > Len(l.snapshot) THEN Out(db, [l EXCEPT !.pc = "done"])
  ELSE IF l.snapshot[l.idx].is_paused THEN TickLoop(db, [l EXCEPT !.idx = @ + 1])
  ELSE RefreshBegin(db, [l EXCEPT !.attempted = Append(@, l.snapshot[l.idx].id)],
                    l.snapshot[l.idx])

\* ------------------------------------------------------------------ actions
Apply(p, out) ==
  /\ accounts' = out.db.accounts
  /\ usage_history' = out.db.usage_history
  /\ usage_detail' = out.db.usage_detail
  /\ nextHistoryId' = out.db.nextHistoryId
  /\ issued' = out.db.issued
  /\ proc' = [proc EXCEPT ![p] = out.l]
  /\ UNCHANGED << today, clock, userOrgs, refreshAllIds, apiVars, timerVars, auxVars >>

\* getUserOrgs(token): the user's organizations, or [] when the call fails
OrgAnswers == { userOrgs, <<>> }

At(p, pc) == proc[p].pc = pc

\* setInterval(autoRefreshAll, interval) fires: autoRefreshAll to its first await
TimerFire ==
  /\ At("tick", "idle")
  /\ Apply("tick", TickLoop(DB, [Idle EXCEPT !.kind = "tick", !.idx = 1,
                                             !.snapshot = getAllAccounts(DB)]))
  /\ UNCHANGED lastFetch

\* the interval has passed again while the run started by the last firing is
\* still awaiting a refresh: setInterval calls autoRefreshAll all the same
TimerFireDuring ==
  /\ ~At("tick", "idle") /\ At("tick2", "idle")
  /\ Apply("tick2", TickLoop(DB, [Idle EXCEPT !.kind = "tick", !.idx = 1,
                                              !.snapshot = getAllAccounts(DB)]))
  /\ UNCHANGED lastFetch

\* a handler that answers with the card as it is while another handler is
\* refreshing the account
PostRefresh_Locked(p, id) ==
  /\ p # "tick" /\ At(p, "idle")
  /\ id \in DOMAIN accounts
  /\ LET acc == getAccountById(DB, id)
         l == [Idle EXCEPT !.kind = "refresh", !.id = id, !.acc = acc]
         busy == \E q \in Procs \ {p} :
                   proc[q].id = id /\ proc[q].pc \notin {"idle", "done", "failed"}
     IN Apply(p, IF decrypt(acc.pat_token) = 0 \/ busy
                 THEN Out(DB, [l EXCEPT !.pc = "done"])
                 ELSE IF acc.account_type = "copilot"
                 THEN Out(DB, [l EXCEPT !.pc = "preUser"])
                 ELSE RefreshBegin(DB, l, acc))
  /\ UNCHANGED lastFetch

\* POST /refresh/:id up to its first await
PostRefresh(p, id) ==
  /\ p # "tick" /\ At(p, "idle")
  /\ id \in DOMAIN accounts
  /\ LET acc == getAccountById(DB, id)
         l == [Idle EXCEPT !.kind = "refresh", !.id = id, !.acc = acc]
     IN Apply(p, IF decrypt(acc.pat_token) = 0 THEN Out(DB, [l EXCEPT !.pc = "done"])
                 ELSE IF acc.account_type = "copilot"
                 THEN Out(DB, [l EXCEPT !.pc = "preUser"])
                 ELSE RefreshBegin(DB, l, acc))
  /\ UNCHANGED lastFetch

\* getUser(token): [ok, login]
UserAnswer(ok, login) == [ok |-> ok, login |-> login]

\* the provider reports the login the account is stored under
SameUser(id) == UserAnswer(TRUE, getAccountById(DB, id).github_username)

\* the update of the user columns was refused (history)
Refused(l, db, user) ==
  [l EXCEPT !.refused = @ \/ ( /\ user.ok
                               /\ UniqueFails(db, l.id, [github_username |-> user.login]) )]

\* POST /refresh/:id: getUser and getUserEmails have settled, the user columns
\* are updated; refreshAccount(getAccountById(id))
PreUserAnswered(p, user) ==
  /\ At(p, "preUser")
  /\ LET db == setUserInfo(DB, proc[p].id, user)
         l == Refused(proc[p], DB, user)
     IN Apply(p, IF l.id \in DOMAIN accounts
                 THEN RefreshBegin(db, l, getAccountById(db, l.id))
                 ELSE \* acc is undefined: acc.pat_token throws a TypeError
                      RefreshEnd(db, l, "TypeError"))
  /\ UNCHANGED lastFetch

PreUserDone(p) == PreUserAnswered(p, SameUser(proc[p].id))

\* an auto-detection that takes the first organization of any list
GetUserAnswered_FirstOrg(p, user) ==
  /\ At(p, "getUser")
  /\ LET l == Refused(proc[p], DB, user)
         db0 == setUserInfo(DB, l.id, user)
         orgs == l.acc.github_orgs
         detect == l.acc.billing_org = "" /\ Len(orgs) >= 1
         billingOrg == IF detect THEN orgs[1] ELSE l.acc.billing_org
         db == IF detect THEN updateAccount(db0, l.id, [billing_org |-> billingOrg])
               ELSE db0
     IN Apply(p, Out(db, [l EXCEPT !.pc = "getUserOrgs", !.outerBillingOrg = billingOrg]))
  /\ UNCHANGED lastFetch

\* refreshAccount, Copilot: getUser has settled, the user columns are updated;
\* billing org auto-detection
GetUserAnswered(p, user) ==
  /\ At(p, "getUser")
  /\ LET l == Refused(proc[p], DB, user)
         db0 == setUserInfo(DB, l.id, user)
         orgs == l.acc.github_orgs
         detect == l.acc.billing_org = "" /\ Len(orgs) = 1
         billingOrg == IF detect THEN orgs[1] ELSE l.acc.billing_org
         db == IF detect THEN updateAccount(db0, l.id, [billing_org |-> billingOrg])
               ELSE db0
     IN Apply(p, Out(db, [l EXCEPT !.pc = "getUserOrgs", !.outerBillingOrg = billingOrg]))
  /\ UNCHANGED lastFetch

GetUserDone(p) == GetUserAnswered(p, SameUser(proc[p].id))

\* refreshAccount, Copilot: getUserOrgs has answered; fetchAndStoreUsage starts
GetUserOrgsDone(p, orgs) ==
  /\ At(p, "getUserOrgs")
  /\ LET l == proc[p]
     IN Apply(p, UsageBegin(updateAccount(DB, l.id, [github_orgs |-> orgs]), l,
                            l.acc.copilot_plan, l.outerBillingOrg))
  /\ UNCHANGED lastFetch

\* tryOrgEndpoints: one of the three organization endpoints has settled
OrgProbeDone(p, resp) ==
  /\ At(p, "probe") /\ proc[p].ep \in {"org_pr_user", "org_pr", "org_bill"}
  /\ Apply(p, ProbeResult(DB, proc[p], resp))
  /\ lastFetch' = p

\* one of the two user-level endpoints has settled
UserProbeDone(p, resp) ==
  /\ At(p, "probe") /\ proc[p].ep \in {"user_pr", "user_bill"}
  /\ Apply(p, ProbeResult(DB, proc[p], resp))
  /\ lastFetch' = p

\* the getUserOrgs call of the organization scan has answered
ScanOrgsDone(p, orgs) ==
  /\ At(p, "scanOrgs")
  /\ LET l == proc[p]
     IN Apply(p, IF orgs # <<>>
                 THEN ScanFrom(updateAccount(DB, l.id, [github_orgs |-> orgs]),
                               [l EXCEPT !.allOrgs = orgs], 1)
                 ELSE ScanFrom(DB, l, 1))
  /\ lastFetch' = p

\* fetchCopilotActivity has settled (last_activity_* are not part of the model)
ActivityDone(p) ==
  /\ At(p, "activity")
  /\ Apply(p, RefreshEnd(DB, proc[p], ""))
  /\ UNCHANGED lastFetch

\* POST /refresh/:id: the trailing getUserOrgs has answered
PostOrgsDone(p, orgs) ==
  /\ At(p, "postOrgs")
  /\ Apply(p, Out(updateAccount(DB, proc[p].id, [github_orgs |-> orgs]),
                  [proc[p] EXCEPT !.pc = "done"]))
  /\ UNCHANGED lastFetch

\* fetchAndStoreClaudeUsage: the month report has settled
ClaudeUsageDone(p, report) ==
  /\ At(p, "claudeUsage")
  /\ LET out == fetchAndStoreClaudeUsage(DB, proc[p], report)
     IN Apply(p, Settle(out.db, out.l, ""))
  /\ lastFetch' = p

\* parseClaudeCodeData([]): the summary of a month without records
EmptyMonth == ClaudeReport(TRUE, 0, << >>)

\* fetchAndStoreClaudeUsage: every request of getClaudeCodeMonthUsage has
\* failed; fetchDayData answered [] for a status that is not OK and the .catch
\* of the batch answered [] for a throw, so dailyData is [] and nothing is thrown
ClaudeDaysFailed(p) ==
  /\ At(p, "claudeUsage")
  /\ LET out == fetchAndStoreClaudeUsage(DB, [proc[p] EXCEPT !.anyErr = TRUE],
                                         EmptyMonth)
     IN Apply(p, Settle(out.db, out.l, ""))
  /\ lastFetch' = p

\* a failed exchange that wipes the stored tokens
ExchangeFailed_ClearsTokens(db, l, status) ==
  Settle(updateAccount(db, l.id, [pat_token |-> NoCipher,
                                  claude_cf_clearance |-> NoCipher,
                                  claude_token_expires_at |-> 0]), l, status)

\* refreshAccessToken threw (invalid_grant: "Session expired. Please re-login";
\* otherwise "Token refresh failed"): getValidToken and its caller's try
\* block are left by the throw
ExchangeFailed(db, l, status) == Settle(db, l, status)

\* getValidToken: the token endpoint has answered
TokenExchanged(p, outcome, iv1, iv2) ==
  /\ At(p, "exchange")
  /\ outcome.status = "ok" => issued + 2 <= MaxIssued
  /\ LET l == [proc[p] EXCEPT !.gvt.exchanges = @ + 1, !.gvt.grant = outcome.status,
                              !.gvt.expires_in = outcome.expires_in,
                              !.gvt.answeredAt = clock]
         r == refreshAccessToken(DB, l.tkn.refreshToken, outcome)
         tkn == [accessToken |-> r.accessToken, refreshToken |-> r.refreshToken,
                 expiresAt |-> clock + r.expiresIn, refreshed |-> TRUE]
         db == updateAccount([DB EXCEPT !.issued = @ + 2], l.id,
                 [pat_token |-> encrypt(tkn.accessToken, iv1),
                  claude_cf_clearance |-> encrypt(tkn.refreshToken, iv2),
                  claude_token_expires_at |-> tkn.expiresAt])
     IN Apply(p, IF outcome.status = "ok"
                 THEN Out(db, SendUsage(db, [l EXCEPT !.tkn = tkn], "webUsage"))
                 ELSE ExchangeFailed(DB, l, outcome.status))
  /\ UNCHANGED lastFetch

\* fetchAndStoreClaudeWebUsage: the usage endpoint has answered
WebUsageDone(p, data) ==
  /\ At(p, "webUsage")
  /\ LET out == fetchAndStoreClaudeWebUsage(DB, proc[p], data)
     IN Apply(p, Settle(out.db, out.l, ""))
  /\ lastFetch' = p

\* the handler answers its request / autoRefreshAll returns
Respond(p) ==
  /\ proc[p].pc \in {"done", "failed"}
  /\ proc' = [proc EXCEPT ![p] = Idle]
  /\ UNCHANGED << accounts, usage_history, usage_detail, nextHistoryId, today,
                  clock, issued, userOrgs, refreshAllIds, lastFetch,
                  apiVars, timerVars, auxVars >>

\* POST /account/:id/pause
PostPause(id) ==
  /\ id \in DOMAIN accounts
  /\ accounts' = togglePause(DB, id).accounts
  /\ UNCHANGED << usage_history, usage_detail, nextHistoryId, today, clock,
                  issued, userOrgs, proc, refreshAllIds, lastFetch,
                  apiVars, timerVars, auxVars >>

\* POST /account/add-pat up to its first await; login is the login of the
\* token's owner (free is history: no account had the login at that time)
PostAddPat(p, login) ==
  /\ p # "tick" /\ At(p, "idle")
  /\ Apply(p, Out(DB, [Idle EXCEPT !.kind = "add", !.pc = "addUser",
                                   !.acc.github_username = login,
                                   !.free = getAccountByUsername(DB, login) = NoAccount]))
  /\ UNCHANGED lastFetch

\* POST /account/add-pat: getUser, getUserOrgs, getUserEmails and
\* detectCopilotPlan have settled: the check for an existing account, the
\* INSERT, and fetchAndStoreUsage up to its first await
AddVerified(p, valid, iv) ==
  /\ At(p, "addUser")
  /\ LET l == proc[p]
         login == l.acc.github_username
         fields == [github_username |-> login, oauth_token |-> NoCipher,
                    pat_token |-> encrypt(1, iv), copilot_plan |-> "pro"]
         db1 == createAccount(DB, fields)
         newAcc == getAccountByUsername(db1, login)
         db2 == updateAccount(db1, newAcc.id, [github_orgs |-> << >>, billing_org |-> ""])
     IN Apply(p,
          IF ~valid THEN Out(DB, [l EXCEPT !.pc = "failed", !.err = "Invalid token"])
          ELSE IF getAccountByUsername(DB, login) # NoAccount
          THEN Out(DB, [l EXCEPT !.pc = "failed", !.err = "already exists"])
          ELSE IF UniqueFails(DB, NextAccountId(DB), fields)
          THEN Out(DB, [l EXCEPT !.pc = "failed", !.err = UniqueError])
          ELSE UsageBegin(db2, [l EXCEPT !.id = newAcc.id, !.acc = db2.accounts[newAcc.id]],
                          "pro", ""))
  /\ UNCHANGED lastFetch

\* the token columns written as they came from GitHub
oauthCredentials_Plain(token, billingWorks, iv1, iv2) ==
  IF billingWorks
  THEN [oauth_token |-> [iv |-> 0, tag |-> 0, ct |-> token],
        pat_token |-> [iv |-> 0, tag |-> 0, ct |-> token]]
  ELSE [oauth_token |-> [iv |-> 0, tag |-> 0, ct |-> token]]

\* GET /oauth/poll/:flowId: the token columns it writes: oauth_token:
\* encrypt(result.access_token), and pat_token likewise if billingWorks
oauthCredentials(token, billingWorks, iv1, iv2) ==
  IF billingWorks
  THEN [oauth_token |-> encrypt(token, iv1), pat_token |-> encrypt(token, iv2)]
  ELSE [oauth_token |-> encrypt(token, iv1)]

\* GET /oauth/poll/:flowId for a pending flow, up to its first await; login is
\* the login of the user who is asked to grant access (the flow's own record
\* is with the routes of the rate limiter)
GetOAuthPoll(p, login) ==
  /\ p # "tick" /\ At(p, "idle")
  /\ Apply(p, Out(DB, [Idle EXCEPT !.kind = "oauth", !.pc = "oauthUser",
                                   !.acc.github_username = login]))
  /\ UNCHANGED lastFetch

\* GET /oauth/poll/:flowId: pollForToken, getUser, getUserOrgs, getUserEmails,
\* verifyPat and detectCopilotPlan have settled: the account is updated or
\* created, and fetchAndStoreUsage runs to its first await if billingWorks
OAuthGranted(p, granted, billingWorks, iv1, iv2) ==
  /\ At(p, "oauthUser")
  /\ LET l == proc[p]
         login == l.acc.github_username
         cred == oauthCredentials(3, billingWorks, iv1, iv2)
         existing == getAccountByUsername(DB, login)
         fields == [github_username |-> login, copilot_plan |-> "pro",
                    oauth_token |-> cred.oauth_token,
                    pat_token |-> IF billingWorks THEN cred.pat_token ELSE NoCipher]
         db1 == IF existing # NoAccount
                THEN updateAccount(DB, existing.id,
                                   cred @@ [github_orgs |-> << >>, copilot_plan |-> "pro"])
                ELSE LET db0 == createAccount(DB, fields)
                     IN updateAccount(db0, getAccountByUsername(db0, login).id,
                                      [github_orgs |-> << >>, billing_org |-> ""])
         acc == getAccountByUsername(db1, login)
     IN Apply(p,
          IF ~granted THEN Out(DB, [l EXCEPT !.pc = "done"])
          ELSE IF billingWorks
          THEN UsageBegin(db1, [l EXCEPT !.id = acc.id, !.acc = acc], "pro",
                          acc.billing_org)
          ELSE Out(db1, [l EXCEPT !.pc = "done", !.id = acc.id]))
  /\ UNCHANGED lastFetch

\* DELETE /account/:id
DeleteAccount(id) ==
  /\ LET db == deleteAccount(DB, id)
     IN /\ accounts' = db.accounts
        /\ usage_history' = db.usage_history
        /\ usage_detail' = db.usage_detail
  /\ UNCHANGED << nextHistoryId, today, clock, issued, userOrgs, proc,
                  refreshAllIds, lastFetch, apiVars, timerVars, auxVars >>

\* accounts.filter(a => !a.is_paused).map(a => a.id)
activeIds(rows) ==
  LET active == SelectSeq(rows, LAMBDA a : ~a.is_paused)
  IN [i \in 1..Len(active) |-> active[i].id]

\* POST /refresh-all
PostRefreshAll ==
  /\ refreshAllIds' = activeIds(getAllAccounts(DB))
  /\ UNCHANGED << accounts, usage_history, usage_detail, nextHistoryId, today,
                  clock, issued, userOrgs, proc, lastFetch,
                  apiVars, timerVars, auxVars >>

\* the verifyAccessToken call of PUT /account/:id goes out
SendVerify(db, l) ==
  [l EXCEPT !.pc = "editVerify",
            !.unrecorded = @ \/ (l.tkn.refreshed /\ ~Stored(db, l.id, l.tkn))]

\* PUT /account/:id, claude_web: the refresh after the update
EditRefresh(db, l) ==
  LET updatedAcc == getAccountById(db, l.id)
      key == decrypt(updatedAcc.pat_token)
  IN IF key = 0 THEN Out(db, [l EXCEPT !.pc = "done"])
     ELSE ClaudeWebBegin(db, [l EXCEPT !.acc = updatedAcc], key,
                         decrypt(updatedAcc.claude_cf_clearance),
                         updatedAcc.claude_token_expires_at)

\* the token fields a PUT /account/:id body may carry (0: field left empty)
EditBodies == { [access_token |-> a, refresh_token |-> r] : a \in {0, 3}, r \in {0, 4} }

\* PUT /account/:id, claude_web branch, up to its first await
PutAccount(p, id, body) ==
  /\ p # "tick" /\ At(p, "idle")
  /\ id \in DOMAIN accounts /\ accounts[id].account_type = "claude_web"
  /\ LET l == [Idle EXCEPT !.kind = "edit", !.id = id, !.acc = accounts[id],
                           !.tkn = [accessToken |-> body.access_token,
                                    refreshToken |-> body.refresh_token,
                                    expiresAt |-> 0, refreshed |-> FALSE]]
     IN Apply(p, IF body.access_token = 0 THEN EditRefresh(DB, l)
                 ELSE IF body.refresh_token # 0
                 THEN Out(DB, [l EXCEPT !.pc = "editExchange"])
                 ELSE Out(DB, SendVerify(DB, l)))
  /\ UNCHANGED lastFetch

\* PUT /account/:id: refreshAccessToken(refreshToken) has settled
EditExchanged(p, outcome) ==
  /\ At(p, "editExchange")
  /\ outcome.status = "ok" => issued + 2 <= MaxIssued
  /\ LET l == proc[p]
         r == refreshAccessToken(DB, l.tkn.refreshToken, outcome)
         tkn == [accessToken |-> r.accessToken, refreshToken |-> r.refreshToken,
                 expiresAt |-> clock + r.expiresIn, refreshed |-> TRUE]
         db == [DB EXCEPT !.issued = @ + 2]
     IN Apply(p, IF outcome.status = "ok"
                 THEN Out(db, SendVerify(db, [l EXCEPT !.tkn = tkn]))
                 ELSE Out(DB, SendVerify(DB, l)))
  /\ UNCHANGED lastFetch

\* PUT /account/:id: verifyAccessToken has answered; updateAccount(id, updates)
EditVerified(p, valid, iv1, iv2) ==
  /\ At(p, "editVerify")
  /\ LET l == proc[p]
         row == getAccountById(DB, l.id)
         db == updateAccount(DB, l.id,
                 [pat_token |-> encrypt(l.tkn.accessToken, iv1),
                  claude_cf_clearance |->
                     IF l.tkn.refreshToken # 0 THEN encrypt(l.tkn.refreshToken, iv2)
                     ELSE row.claude_cf_clearance,
                  claude_token_expires_at |->
                     IF l.tkn.refreshed THEN l.tkn.expiresAt
                     ELSE row.claude_token_expires_at])
     IN Apply(p, IF valid THEN EditRefresh(db, l)
                 ELSE Out(DB, [l EXCEPT !.pc = "done"]))
  /\ UNCHANGED lastFetch

\* ------------------------------------------------------------- environment
MonthsElapsed == (today.year - StartYear) * 12 + today.month - StartMonth

NextMonth ==
  /\ MonthsElapsed < MaxMonths
  /\ today' = IF today.month = 12 THEN [year |-> today.year + 1, month |-> 1]
              ELSE [today EXCEPT !.month = @ + 1]
  /\ UNCHANGED << accounts, usage_history, usage_detail, nextHistoryId, clock,
                  issued, userOrgs, proc, refreshAllIds, lastFetch,
                  apiVars, timerVars, auxVars >>

AdvanceClock ==
  /\ clock + ClockStep <= MaxClock
  /\ clock' = clock + ClockStep
  /\ UNCHANGED << accounts, usage_history, usage_detail, nextHistoryId, today,
                  issued, userOrgs, proc, refreshAllIds, lastFetch,
                  apiVars, timerVars, auxVars >>

\* ------------------------------------------------------ dashboard refreshAll
CONCURRENCY == 5

\* refreshAllRunning, ids, queue, active, completed; pc is the fetch the
\* page waits for ("list": POST /api/refresh-all is on its way, "listed": its
\* answer is on its way back, "refused": a 429 is on its way back, "run": the
\* per-account requests).
\* inflight, requested and failed are history: the ids whose request is in
\* flight, every id a request was sent for, the ids whose request failed, the
\* ids whose request the server has answered, the ids it answered with 429
NoPool == [running |-> FALSE, pc |-> "idle", ids |-> << >>, queue |-> << >>,
           inflight |-> {}, active |-> 0, completed |-> 0, requested |-> << >>,
           failed |-> {}, answered |-> {}, rejected |-> {}]

refreshOne(pl, id) ==
  [pl EXCEPT !.active = @ + 1, !.inflight = @ \cup {id},
             !.requested = Append(@, id)]

\* a loop that empties the queue whatever is in flight
RECURSIVE runNext_NoLimit(_)
runNext_NoLimit(pl) ==
  IF pl.queue # << >>
  THEN runNext_NoLimit(refreshOne([pl EXCEPT !.queue = Tail(@)], Head(pl.queue)))
  ELSE pl

\* while (active < CONCURRENCY && queue.length > 0) refreshOne(queue.shift())
RECURSIVE runNext(_)
runNext(pl) ==
  IF pl.active < CONCURRENCY /\ pl.queue # << >>
  THEN runNext(refreshOne([pl EXCEPT !.queue = Tail(@)], Head(pl.queue)))
  ELSE pl

onDone(pl) ==
  LET p1 == [pl EXCEPT !.completed = @ + 1, !.active = @ - 1]
  IN IF p1.completed >= Len(p1.ids)
     THEN [p1 EXCEPT !.running = FALSE, !.pc = "idle"]
     ELSE runNext(p1)

PoolStep ==
  UNCHANGED << accounts, usage_history, usage_detail, nextHistoryId, today,
               clock, issued, userOrgs, proc, lastFetch, apiVars, timerVars,
               applied >>

\* the Refresh All button is clicked
refreshAll ==
  /\ pool' = IF pool.running THEN pool
             ELSE [NoPool EXCEPT !.running = TRUE, !.pc = "list"]
  /\ UNCHANGED refreshAllIds
  /\ PoolStep

\* POST /refresh-all answers the page's request
ServeRefreshAll ==
  /\ pool.pc = "list"
  /\ refreshAllIds' = activeIds(getAllAccounts(DB))
  /\ pool' = [pool EXCEPT !.pc = "listed"]
  /\ PoolStep

\* .then(function(data) {...}): the list of ids has arrived
ListArrived ==
  /\ pool.pc = "listed"
  /\ LET ids == refreshAllIds
     IN pool' = IF Len(ids) = 0
                THEN [pool EXCEPT !.running = FALSE, !.pc = "idle"]
                ELSE runNext([pool EXCEPT !.pc = "run", !.ids = ids,
                                          !.queue = ids, !.active = 0,
                                          !.completed = 0])
  /\ UNCHANGED refreshAllIds
  /\ PoolStep

\* the outer .catch: the request for the list failed
ListFailed ==
  /\ pool.pc \in {"list", "listed"}
  /\ pool' = [pool EXCEPT !.running = FALSE, !.pc = "idle"]
  /\ UNCHANGED refreshAllIds
  /\ PoolStep

\* the request for one account has settled: the second .then (ok) or the
\* .catch of refreshOne, both of which end in onDone()
RefreshOneSettled(id, ok) ==
  /\ pool.pc = "run"
  /\ id \in pool.inflight
  /\ pool' = onDone([pool EXCEPT !.inflight = @ \ {id},
                                 !.failed = IF ok THEN @ ELSE @ \cup {id}])
  /\ UNCHANGED refreshAllIds
  /\ PoolStep

NoApplied == [fn |-> ""]

\* ------------------------------------------------------ auto-refresh timer
\* a setting that is not there: getSetting gives null, process.env undefined
NoSetting == << "null" >>
DefaultMinutes == 60
MaxMinutes == 1440
MaxTimers == 2

\* a JavaScript number: an integer, or NaN
Num(v) == [nan |-> FALSE, v |-> v]

NaN == [nan |-> TRUE, v |-> 0]

DigitValue ==
  [c \in {"0", "1", "2", "3", "4", "5", "6", "7", "8", "9"} |->
     CASE c = "0" -> 0 [] c = "1" -> 1 [] c = "2" -> 2 [] c = "3" -> 3
       [] c = "4" -> 4 [] c = "5" -> 5 [] c = "6" -> 6 [] c = "7" -> 7
       [] c = "8" -> 8 [] c = "9" -> 9]

IsDigit(c) == c \in DOMAIN DigitValue

\* the longest prefix of digits, read as a decimal number; acc is the value so far
RECURSIVE DigitsValue(_, _)
DigitsValue(chars, acc) ==
  IF chars = << >> \/ ~IsDigit(Head(chars)) THEN acc
  ELSE DigitsValue(Tail(chars), acc * 10 + DigitValue[Head(chars)])

RECURSIVE TrimStart(_)
TrimStart(chars) ==
  IF chars # << >> /\ Head(chars) = " " THEN TrimStart(Tail(chars)) ELSE chars

\* parseInt(string): leading blanks, an optional sign, then digits up to the
\* first other character; NaN when there is no digit.  null and undefined
\* are read as the strings "null" and "undefined", which hold no digit.
parseInt(chars) ==
  LET t == TrimStart(chars)
      signed == t # << >> /\ Head(t) \in {"-", "+"}
      body == IF signed THEN Tail(t) ELSE t
      value == DigitsValue(body, 0)
  IN IF body = << >> \/ ~IsDigit(Head(body)) THEN NaN
     ELSE IF signed /\ Head(t) = "-" THEN Num(0 - value) ELSE Num(value)

\* String(n) of a positive integer
RECURSIVE StringOf(_)
StringOf(n) ==
  LET last == CHOOSE c \in DOMAIN DigitValue : DigitValue[c] = n % 10
  IN IF n < 10 THEN << last >> ELSE Append(StringOf(n \div 10), last)

\* x || y on numbers: 0 and NaN are falsy
OrElse(x, y) == IF x.nan \/ x.v = 0 THEN y ELSE x

\* Math.max(a, x) and Math.min(a, x) with an integer a: NaN if x is NaN
MathMax(a, x) == IF x.nan THEN NaN ELSE IF x.v < a THEN Num(a) ELSE x

MathMin(a, x) == IF x.nan THEN NaN ELSE IF x.v > a THEN Num(a) ELSE x

\* x * a
Times(x, a) == IF x.nan THEN NaN ELSE Num(x.v * a)

\* getAutoRefreshMinutes()
getAutoRefreshMinutes(setting, environment) ==
  IF setting # NoSetting
  THEN MathMax(1, OrElse(parseInt(setting), Num(DefaultMinutes)))
  ELSE MathMax(1, parseInt(IF environment \in {NoSetting, << >>}
                           THEN StringOf(DefaultMinutes) ELSE environment))

\* getAutoRefreshInterval()
getAutoRefreshInterval(setting, environment) ==
  Times(getAutoRefreshMinutes(setting, environment), 60 * 1000)

\* clearInterval(handle)
clearInterval(ts, handle) == [h \in DOMAIN ts \ {handle} |-> ts[h]]

\* the handle setInterval returns: one that is not in use and not the last one
NewHandle(ts, last) ==
  CHOOSE h \in 1..MaxTimers :
    /\ h \notin DOMAIN ts /\ h # last
    /\ \A g \in 1..MaxTimers : g \notin DOMAIN ts /\ g # last => h <= g

\* setInterval(autoRefreshAll, interval)
setInterval(ts, handle, interval) ==
  [h \in DOMAIN ts \cup {handle} |-> IF h = handle THEN interval ELSE ts[h]]

Cleared_Not(ts, handle) == ts

\* if (autoRefreshTimer) clearInterval(autoRefreshTimer)
Cleared(ts, handle) == IF handle # 0 THEN clearInterval(ts, handle) ELSE ts

\* startAutoRefresh(): the registered timers and autoRefreshTimer afterwards
startAutoRefresh(ts, handle, setting, environment) ==
  LET rest == Cleared(ts, handle)
      h == NewHandle(rest, handle)
  IN [timers |-> setInterval(rest, h, getAutoRefreshInterval(setting, environment)),
      autoRefreshTimer |-> h]

\* setInterval can hand out a handle
CanStart == \E h \in 1..MaxTimers : h \notin DOMAIN Cleared(timers, autoRefreshTimer)
                                    /\ h # autoRefreshTimer

\* index.js is loaded: startAutoRefresh() at its top level
Startup ==
  /\ autoRefreshTimer = 0
  /\ CanStart
  /\ LET out == startAutoRefresh(timers, autoRefreshTimer, app_settings, env)
     IN /\ timers' = out.timers
        /\ autoRefreshTimer' = out.autoRefreshTimer
  /\ UNCHANGED << accounts, usage_history, usage_detail, nextHistoryId, today,
                  clock, issued, userOrgs, proc, refreshAllIds, lastFetch,
                  apiVars, app_settings, env, auxVars >>

\* POST /settings/auto-refresh with body.minutes
PostAutoRefresh(minutes) ==
  LET clamped == MathMax(1, MathMin(MaxMinutes,
                              OrElse(parseInt(minutes), Num(DefaultMinutes))))
      stored == StringOf(clamped.v)
      out == startAutoRefresh(timers, autoRefreshTimer, stored, env)
  IN /\ autoRefreshTimer # 0
     /\ CanStart
     /\ app_settings' = stored
     /\ timers' = out.timers
     /\ autoRefreshTimer' = out.autoRefreshTimer
     /\ UNCHANGED << accounts, usage_history, usage_detail, nextHistoryId, today,
                     clock, issued, userOrgs, proc, refreshAllIds, lastFetch,
                     apiVars, env, auxVars >>

\* ------------------------------------------------------- /api rate limiter
\* Date.now() is counted in seconds where the rate limiter is concerned
RATE_LIMIT_WINDOW == 60
RATE_LIMIT_MAX == 30
\* 10_000 in the program; a bound here, so that a handful of keys overflows
MAX_MAP_SIZE == 1
RateStep == 60
MaxRateClock == 180
MaxCount == 32
MaxHits == 1
MaxFlows == 1

FlowIds == 1..MaxFlows

\* the x-forwarded-for and x-real-ip headers of a request
Headers ==
  { [forwarded |-> << "10.0.0.1", "10.0.0.9" >>, realIp |-> "10.0.0.9"],
    [forwarded |-> << >>, realIp |-> "10.0.0.2"],
    [forwarded |-> << >>, realIp |-> ""] }

\* forwarded ? forwarded.split(',')[0].trim() : realIp || "unknown"
ClientKey(h) ==
  IF h.forwarded # << >> THEN h.forwarded[1]
  ELSE IF h.realIp # "" THEN h.realIp ELSE "unknown"

Keys == { ClientKey(h) : h \in Headers }

\* rateLimitMap.get(key): the position of the key's entry, 0 when it has none
EntryIndex(map, key) ==
  IF \E i \in 1..Len(map) : map[i].key = key
  THEN CHOOSE i \in 1..Len(map) : map[i].key = key
  ELSE 0

\* rateLimit(c, key): the map afterwards and the returned flag
rateLimit(map, key, now) ==
  LET i == EntryIndex(map, key)
      fresh == [key |-> key, start |-> now, count |-> 1]
  IN IF i = 0
     THEN [map |-> Append(map, fresh), limited |-> FALSE]
     ELSE IF now - map[i].start > RATE_LIMIT_WINDOW
     THEN [map |-> [map EXCEPT ![i] = fresh], limited |-> FALSE]
     ELSE [map |-> [map EXCEPT ![i].count = @ + 1],
           limited |-> map[i].count + 1 > RATE_LIMIT_MAX]

\* entries.sort((a, b) => a[1].start - b[1].start): stable, ascending by start
SortByStart(entries) ==
  LET n == Len(entries)
      rank(i) == Cardinality({ j \in 1..n :
                   \/ entries[j].start < entries[i].start
                   \/ entries[j].start = entries[i].start /\ j < i })
  IN [r \in 1..n |-> entries[CHOOSE i \in 1..n : rank(i) = r - 1]]

EvictionOrder_Insertion(entries) == entries

\* the entries the forced cleanup walks through, oldest first
EvictionOrder(entries) == SortByStart(entries)

\* cleanupRateLimits(): the map afterwards
cleanupRateLimits(map, now) ==
  LET live == SelectSeq(map, LAMBDA e : ~(now - e.start > RATE_LIMIT_WINDOW * 2))
      excess == Len(live) - MAX_MAP_SIZE
      entries == EvictionOrder(live)
      deleted == { entries[i].key : i \in 1..excess }
  IN IF Len(live) > MAX_MAP_SIZE
     THEN SelectSeq(live, LAMBDA e : e.key \notin deleted)
     ELSE live

\* the routes of /api that the model serves
Routes ==
  { [method |-> "POST", path |-> "/account/:id/pause"],
    [method |-> "POST", path |-> "/oauth/start"],
    [method |-> "GET", path |-> "/oauth/poll/:flowId"] }

PauseRoute == [method |-> "POST", path |-> "/account/:id/pause"]

\* pollForToken(clientId, device_code): what GitHub answers
PollAnswers == { "access_token", "authorization_pending", "expired_token" }

\* startFlow(flowId, data) under a fresh flow id
startFlow(flows) ==
  IF \E f \in FlowIds : flows[f] = "none"
  THEN LET f == CHOOSE f \in FlowIds :
                  flows[f] = "none" /\ \A g \in FlowIds : flows[g] = "none" => f <= g
       IN [flows EXCEPT ![f] = "pending"]
  ELSE flows

\* GET /oauth/poll/:flowId: the tables and the flows afterwards; the account of
\* the user exists, the token works for billing, and the usage fetch that
\* follows fails, which the handler swallows
oauthPoll(db, flows, f, answer, iv) ==
  IF flows[f] \in {"none", "removed"} THEN [db |-> db, flows |-> flows]
  ELSE IF flows[f] \in {"complete", "error"}
  THEN [db |-> db, flows |-> [flows EXCEPT ![f] = "removed"]]
  ELSE IF answer = "access_token"
  THEN [db |-> updateAccount(db, 1, [pat_token |-> encrypt(2, iv)]),
        flows |-> [flows EXCEPT ![f] = "complete"]]
  ELSE IF answer = "authorization_pending" THEN [db |-> db, flows |-> flows]
  ELSE [db |-> db, flows |-> [flows EXCEPT ![f] = "error"]]

\* the handler of a route
Handle(db, flows, route, answer, iv) ==
  IF route.path = "/account/:id/pause"
  THEN [db |-> togglePause(db, 1), flows |-> flows]
  ELSE IF route.path = "/oauth/start"
  THEN [db |-> db, flows |-> startFlow(flows)]
  ELSE oauthPoll(db, flows, 1, answer, iv)

NoWindow == [start |-> 0, n |-> 0]

\* the fixed window a non-GET request of a key falls into
WindowAfter(w, now) ==
  IF w.n = 0 \/ now - w.start > RATE_LIMIT_WINDOW
  THEN [start |-> now, n |-> 1]
  ELSE [w EXCEPT !.n = @ + 1]

NoReq == [key |-> "", method |-> "", path |-> "", checked |-> FALSE,
          limited |-> FALSE, handled |-> FALSE, mutated |-> FALSE, nth |-> 0]

\* the middleware's decision on a request: GET passes without a check
Admit(map, method, key, now) ==
  IF method = "GET" THEN [map |-> map, limited |-> FALSE]
  ELSE rateLimit(map, key, now)

\* a request to /api: the middleware, then the handler unless it answered 429
ApiRequest(h, route, answer, iv) ==
  LET key == ClientKey(h)
      checked == route.method # "GET"
      r == Admit(rateLimitMap, route.method, key, clock)
      out == IF r.limited THEN [db |-> DB, flows |-> activeFlows]
             ELSE Handle(DB, activeFlows, route, answer, iv)
      w == IF checked THEN WindowAfter(windows[key], clock) ELSE windows[key]
  IN /\ w.n <= MaxCount
     /\ rateLimitMap' = r.map
     /\ accounts' = out.db.accounts
     /\ activeFlows' = out.flows
     /\ windows' = [windows EXCEPT ![key] = w]
     /\ lastReq' = [key |-> key, method |-> route.method, path |-> route.path,
                    checked |-> checked, limited |-> r.limited,
                    handled |-> ~r.limited,
                    mutated |-> out.db.accounts # accounts \/ out.flows # activeFlows,
                    nth |-> IF checked THEN w.n ELSE 0]
     /\ UNCHANGED << usage_history, usage_detail, nextHistoryId, today, clock,
                     issued, userOrgs, proc, refreshAllIds, lastFetch, timerVars, auxVars >>

\* setInterval(cleanupRateLimits, CLEANUP_INTERVAL) fires
CleanupFire ==
  /\ rateLimitMap' = cleanupRateLimits(rateLimitMap, clock)
  /\ UNCHANGED << accounts, usage_history, usage_detail, nextHistoryId, today,
                  clock, issued, userOrgs, proc, refreshAllIds, lastFetch,
                  activeFlows, lastReq, windows, timerVars, auxVars >>

\* time passes
RateTick ==
  /\ clock + RateStep <= MaxRateClock
  /\ clock' = clock + RateStep
  /\ UNCHANGED << accounts, usage_history, usage_detail, nextHistoryId, today,
                  issued, userOrgs, proc, refreshAllIds, lastFetch,
                  apiVars, timerVars, auxVars >>

\* ------------------------------------------------------------ initial states
CopilotAccount(id, plan, billing_org, orgs, paused) ==
  [NoAccount EXCEPT !.id = id, !.github_username = UserName(id),
                    !.account_type = "copilot", !.copilot_plan = plan,
                    !.billing_org = billing_org, !.github_orgs = orgs,
                    !.is_paused = paused, !.pat_token = encrypt(1, 1)]

ClaudeCodeAccount(id, paused) ==
  [NoAccount EXCEPT !.id = id, !.github_username = UserName(id),
                    !.account_type = "claude_code", !.copilot_plan = "pro",
                    !.claude_plan = "pro", !.is_paused = paused,
                    !.pat_token = encrypt(1, 1)]

ClaudeWebAccount(id, refreshToken, paused) ==
  [NoAccount EXCEPT !.id = id, !.github_username = UserName(id),
                    !.account_type = "claude_web", !.copilot_plan = "pro",
                    !.claude_plan = "pro", !.is_paused = paused,
                    !.pat_token = encrypt(1, 1),
                    !.claude_cf_clearance = encrypt(refreshToken, 1)]

InitStore ==
  /\ usage_history = {}
  /\ usage_detail = <<>>
  /\ nextHistoryId = 1
  /\ today = [year |-> StartYear, month |-> StartMonth]
  /\ clock = 0
  /\ issued = 0
  /\ proc = [p \in Procs |-> Idle]
  /\ refreshAllIds = <<>>
  /\ lastFetch = "none"

\* no request to /api has been made
InitApi ==
  /\ rateLimitMap = << >>
  /\ activeFlows = [f \in FlowIds |-> "none"]
  /\ lastReq = NoReq
  /\ windows = [k \in Keys |-> NoWindow]

\* after startAutoRefresh() at startup, nothing configured
InitTimers ==
  /\ app_settings = NoSetting
  /\ env = NoSetting
  /\ timers = [t \in {1} |-> Num(DefaultMinutes * 60 * 1000)]
  /\ autoRefreshTimer = 1

\* the dashboard is idle and nothing has been applied
InitAux ==
  /\ pool = NoPool
  /\ applied = NoApplied

InitRest == InitStore /\ InitApi /\ InitTimers /\ InitAux

\* one Copilot account, refreshed on demand
InitCopilot ==
  /\ \E plan \in {"pro", "business"}, bo \in {"", "A"}, orgs \in OrgLists :
        accounts = (1 :> CopilotAccount(1, plan, bo, orgs, FALSE))
  /\ userOrgs \in OrgLists
  /\ InitRest

Steps(p) ==
  \/ PreUserDone(p)
  \/ GetUserDone(p)
  \/ \E orgs \in OrgAnswers : GetUserOrgsDone(p, orgs)
  \/ \E resp \in Responses : OrgProbeDone(p, resp)
  \/ \E resp \in Responses : UserProbeDone(p, resp)
  \/ \E orgs \in OrgAnswers : ScanOrgsDone(p, orgs)
  \/ ActivityDone(p)
  \/ \E orgs \in OrgAnswers : PostOrgsDone(p, orgs)
  \/ Respond(p)

NextCopilot ==
  \/ \E id \in AccountIds : PostRefresh("req1", id)
  \/ Steps("req1")

SpecCopilot == InitCopilot /\ [][NextCopilot]_vars

WebSteps(p) ==
  \/ \E outcome \in ExchangeOutcomes, iv \in IVs : TokenExchanged(p, outcome, iv, iv)
  \/ \E data \in WebUsages : WebUsageDone(p, data)

\* the exchange of an edit draws its answers without an explicit expires_in
EditOutcomes == { o \in ExchangeOutcomes : o.expires_in = 0 }

EditSteps(p) ==
  \/ \E id \in AccountIds, body \in EditBodies : PutAccount(p, id, body)
  \/ \E outcome \in EditOutcomes : EditExchanged(p, outcome)
  \/ \E valid \in BOOLEAN, iv \in IVs : EditVerified(p, valid, iv, iv)

\* one Copilot account, two concurrent refresh requests, the month turning
InitRace ==
  /\ accounts = (1 :> CopilotAccount(1, "pro", "", <<>>, FALSE))
  /\ userOrgs = <<>>
  /\ InitRest

Requests == {"req1", "req2"}

\* the answers the race draws from: two different totals, each with its own
\* model breakdown, and a failure
RaceResponses ==
  { Response(TRUE, GptItems), Response(TRUE, TwoItems), Response(FALSE, NoItems) }

NextRace ==
  \/ \E p \in Requests :
       \/ PostRefresh(p, 1)
       \/ PreUserDone(p)
       \/ GetUserDone(p)
       \/ \E orgs \in OrgAnswers : GetUserOrgsDone(p, orgs)
       \/ \E resp \in RaceResponses : UserProbeDone(p, resp)
       \/ \E orgs \in OrgAnswers : PostOrgsDone(p, orgs)
       \/ Respond(p)
  \/ NextMonth

SpecRace == InitRace /\ [][NextRace]_vars

\* one Claude web account: a refresh and an edit of its credentials
InitToken ==
  /\ \E rt \in {0, 2} : accounts = (1 :> ClaudeWebAccount(1, rt, FALSE))
  /\ userOrgs = <<>>
  /\ InitRest

NextToken ==
  \/ PostRefresh("req1", 1)
  \/ WebSteps("req1") \/ Respond("req1")
  \/ EditSteps("req2") \/ Respond("req2")
  \/ AdvanceClock

SpecToken == InitToken /\ [][NextToken]_vars

\* the scheduler's accounts: a Claude web account, a Copilot or Claude Code
\* account, then Copilot accounts; each paused or not, the last one favorite or not
TickTypes ==
  { t \in [AccountIds -> { "copilot", "claude_code", "claude_web" }] :
      \A i \in AccountIds : /\ t[i] = "claude_web" <=> i = 1
                            /\ t[i] = "claude_code" => i = 2 }

TickFavorites ==
  { f \in [AccountIds -> BOOLEAN] : \A i \in AccountIds : f[i] => i = NumAccounts }

TickAccount(i, type, paused, favorite) ==
  [ (CASE type = "claude_web" -> ClaudeWebAccount(i, 2, paused)
       [] type = "copilot" -> CopilotAccount(i, "pro", "", <<>>, paused)
       [] OTHER -> ClaudeCodeAccount(i, paused))
    EXCEPT !.is_favorite = favorite ]

InitTick ==
  /\ \E type \in TickTypes, paused \in [AccountIds -> BOOLEAN], favorite \in TickFavorites :
        accounts = [i \in AccountIds |-> TickAccount(i, type[i], paused[i], favorite[i])]
  /\ userOrgs = <<>>
  /\ InitRest

\* the answers the scheduler model draws from: one success, one failure
TickResponses == { Response(TRUE, PlainItems), Response(FALSE, NoItems) }
TickReports == { r \in ClaudeReports : r.ok => r.totalCostUSD > 0 }
TickOutcomes ==
  { o \in ExchangeOutcomes : o.expires_in = 0 /\ (o.status = "ok" => o.rotate) }
TickUsages == { d \in WebUsages : d.ok => d.weeklyUsagePct > 0 }

NextTick ==
  \/ TimerFire
  \/ GetUserDone("tick")
  \/ GetUserOrgsDone("tick", <<>>)
  \/ \E resp \in TickResponses : UserProbeDone("tick", resp)
  \/ \E report \in TickReports : ClaudeUsageDone("tick", report)
  \/ \E outcome \in TickOutcomes : TokenExchanged("tick", outcome, 1, 2)
  \/ \E data \in TickUsages : WebUsageDone("tick", data)
  \/ Respond("tick")
  \/ \E id \in AccountIds : PostPause(id)
  \/ PostRefreshAll

SpecTick == InitTick /\ [][NextTick]_vars

\* one client sends POST after POST; a second one sends a few of its own
Client == CHOOSE h \in Headers : h.forwarded # << >>

Others == { h \in Headers : h.forwarded = << >> /\ h.realIp # "" }

\* the request of h is at most the cap-th of its window
Within(h, cap) == WindowAfter(windows[ClientKey(h)], clock).n <= cap

InitRate ==
  /\ accounts = [id \in {1} |-> CopilotAccount(1, "pro", "", << >>, FALSE)]
  /\ userOrgs = << >>
  /\ InitRest

NextRate ==
  \/ ApiRequest(Client, PauseRoute, "authorization_pending", 2)
  \/ \E h \in Others :
       Within(h, MaxHits) /\ ApiRequest(h, PauseRoute, "authorization_pending", 2)
  \/ CleanupFire
  \/ RateTick

SpecRate == InitRate /\ [][NextRate]_vars

\* any client sends any request to /api, a few per window, while the cleanup runs
NextGuard ==
  \/ \E h \in Headers, route \in Routes :
       /\ route.method # "GET"
       /\ Within(h, MaxHits)
       /\ ApiRequest(h, route, "authorization_pending", 2)
  \/ \E h \in Headers, route \in Routes, answer \in PollAnswers :
       /\ route.method = "GET"
       /\ ApiRequest(h, route, answer, 2)
  \/ CleanupFire
  \/ RateTick

SpecGuard == InitRate /\ [][NextGuard]_vars

\* every client sends a POST now and then while time passes and the cleanup runs
NextCleanup ==
  \/ \E h \in Headers :
       Within(h, MaxHits) /\ ApiRequest(h, PauseRoute, "authorization_pending", 2)
  \/ CleanupFire
  \/ RateTick

SpecCleanup == InitRate /\ [][NextCleanup]_vars

\* what AUTO_REFRESH_MINUTES may be set to, and what a form may post
ConfigStrings ==
  { << >>, << "a", "b", "c" >>, << "0" >>, << "-", "5" >>, << "5" >>,
    << " ", "9", "0", "m" >>, << "1", "4", "4", "0" >>, << "5", "0", "0", "0" >> }

\* what an earlier run of the program has left in app_settings
StoredStrings == { StringOf(n) : n \in {1, 30, MaxMinutes} }

\* the program is started with some configuration; the interval is then
\* changed through the settings page
InitTimer ==
  /\ accounts = [id \in {1} |-> CopilotAccount(1, "pro", "", << >>, FALSE)]
  /\ userOrgs = << >>
  /\ InitStore
  /\ InitApi
  /\ InitAux
  /\ app_settings \in StoredStrings \cup {NoSetting}
  /\ env \in ConfigStrings \cup {NoSetting}
  /\ timers = << >>
  /\ autoRefreshTimer = 0

NextTimer ==
  \/ Startup
  \/ \E minutes \in ConfigStrings \cup {NoSetting} : PostAutoRefresh(minutes)

SpecTimer == InitTimer /\ [][NextTimer]_vars

\* The scheduler under the guarantees the code gives.  A call made through
\* fetchWithTimeout is answered or aborted after DEFAULT_TIMEOUT, so its
\* continuation runs; the code between two awaits runs to its end.  The
\* Claude Code analytics call is a plain fetch: nothing makes it return.
TimedContinuations ==
  \/ GetUserDone("tick")
  \/ GetUserOrgsDone("tick", <<>>)
  \/ \E resp \in TickResponses : UserProbeDone("tick", resp)
  \/ \E outcome \in TickOutcomes : TokenExchanged("tick", outcome, 1, 2)
  \/ \E data \in TickUsages : WebUsageDone("tick", data)
  \/ Respond("tick")

SpecLive == InitTick /\ [][NextTick]_vars /\ WF_vars(TimedContinuations)

\* as SpecLive, had fetchDayData a timeout as well
SpecLiveAll ==
  /\ SpecLive
  /\ WF_vars(\E report \in TickReports : ClaudeUsageDone("tick", report))

\* parseUsageData applied to a billing answer and a plan limit, and the result
\* persisted by saveUsage for the account whose plan has that limit
ParseItems ==
  { Item("Copilot", 120, 0, "gpt", ""), Item("copilot", 0, 7, "", ""),
    Item("actions", 50, 0, "", "minutes"), Item("", 9, 0, "", "") }

ParsePayloads ==
  { << >> } \cup { << i >> : i \in ParseItems }
            \cup { << i, j >> : i \in ParseItems, j \in ParseItems }

ParseLimits == { PLAN_LIMITS[p] : p \in DOMAIN PLAN_LIMITS } \cup {0}

ParseAccount(planLimit) ==
  CopilotAccount(1, CHOOSE p \in DOMAIN PLAN_LIMITS :
                      PLAN_LIMITS[p] = planLimit /\ p # "business", "", << >>, FALSE)

ParseLocals ==
  [Idle EXCEPT !.id = 1, !.plan = accounts[1].copilot_plan,
               !.year = today.year, !.month = today.month]

InitParse ==
  /\ \E data \in ParsePayloads, planLimit \in ParseLimits :
       /\ applied = [fn |-> "parseUsageData", data |-> data, planLimit |-> planLimit,
                     done |-> FALSE, out |-> ZeroUsage]
       /\ accounts = [id \in {1} |->
                        ParseAccount(IF planLimit = 0 THEN 300 ELSE planLimit)]
  /\ userOrgs = << >>
  /\ InitStore /\ InitApi /\ InitTimers
  /\ pool = NoPool

Parse ==
  /\ ~applied.done
  /\ applied' = [applied EXCEPT !.done = TRUE,
                                !.out = parseUsageData(applied.data, applied.planLimit)]
  /\ UNCHANGED << accounts, usage_history, usage_detail, nextHistoryId, today,
                  clock, issued, userOrgs, proc, refreshAllIds, lastFetch,
                  apiVars, timerVars, pool >>

\* saveUsage(parsed) in fetchAndStoreUsage, the limit being the plan's
StoreParsed ==
  /\ applied.done
  /\ applied.planLimit = PlanLimit(accounts[1].copilot_plan)
  /\ LET db == saveUsage(DB, ParseLocals, applied.out)
     IN /\ usage_history' = db.usage_history
        /\ usage_detail' = db.usage_detail
        /\ nextHistoryId' = db.nextHistoryId
  /\ UNCHANGED << accounts, today, clock, issued, userOrgs, proc, refreshAllIds,
                  lastFetch, apiVars, timerVars, auxVars >>

NextParse == Parse \/ StoreParsed

SpecParse == InitParse /\ [][NextParse]_vars

\* a token is encrypted, the stored string is possibly damaged, and decrypted
Texts == 0..MaxText

HexValues == 0..(CipherMod - 1)

InitCrypto ==
  /\ \E text \in Texts :
       applied = [fn |-> "crypto", text |-> text, stage |-> "plain", sealed |-> << >>,
                  data |-> << >>, out |-> 0, threw |-> FALSE]
  /\ accounts = [id \in {1} |-> CopilotAccount(1, "pro", "", << >>, FALSE)]
  /\ userOrgs = << >>
  /\ InitStore /\ InitApi /\ InitTimers
  /\ pool = NoPool

AppliedStep ==
  UNCHANGED << accounts, usage_history, usage_detail, nextHistoryId, today,
               clock, issued, userOrgs, proc, refreshAllIds, lastFetch,
               apiVars, timerVars, pool >>

Encrypt(iv) ==
  /\ applied.stage = "plain"
  /\ applied' = [applied EXCEPT !.stage = "sealed",
                                !.sealed = encryptText(applied.text, iv),
                                !.data = encryptText(applied.text, iv)]
  /\ AppliedStep

\* one field of the stored string is overwritten
Overwrite(k, v) ==
  /\ applied.stage = "sealed"
  /\ k \in 1..Len(applied.data)
  /\ applied' = [applied EXCEPT !.stage = "damaged", !.data[k] = v]
  /\ AppliedStep

\* the stored string is cut after its first n fields
Cut(n) ==
  /\ applied.stage = "sealed"
  /\ n < Len(applied.data)
  /\ applied' = [applied EXCEPT !.stage = "damaged", !.data = SubSeq(@, 1, n)]
  /\ AppliedStep

\* ":" and a further field are appended to the stored string
Extend(v) ==
  /\ applied.stage = "sealed"
  /\ applied' = [applied EXCEPT !.stage = "damaged", !.data = Append(@, v)]
  /\ AppliedStep

Decrypt ==
  /\ applied.stage \in {"sealed", "damaged"}
  /\ LET r == decryptText(applied.data)
     IN applied' = [applied EXCEPT !.stage = "opened", !.out = r.out,
                                   !.threw = r.threw]
  /\ AppliedStep

NextCrypto ==
  \/ \E iv \in IVs : Encrypt(iv)
  \/ \E k \in 1..3, v \in HexValues : Overwrite(k, v)
  \/ \E n \in 0..2 : Cut(n)
  \/ \E v \in HexValues : Extend(v)
  \/ Decrypt

SpecCrypto == InitCrypto /\ [][NextCrypto]_vars

\* the scheduler over accounts some of which have no usable pat_token: an
\* empty one, or one whose tag no longer authenticates
BadCipher == [encrypt(1, 1) EXCEPT !.tag = (@ + 1) % CipherMod]

StoredKeys == { encrypt(1, 1), NoCipher, BadCipher }

InitNoKey ==
  /\ \E type \in TickTypes, key \in [AccountIds -> StoredKeys] :
       accounts = [i \in AccountIds |->
                     [TickAccount(i, type[i], FALSE, FALSE) EXCEPT !.pat_token = key[i]]]
  /\ userOrgs = <<>>
  /\ InitRest

NextNoKey ==
  \/ TimerFire
  \/ GetUserDone("tick")
  \/ GetUserOrgsDone("tick", <<>>)
  \/ \E resp \in TickResponses : UserProbeDone("tick", resp)
  \/ \E report \in TickReports : ClaudeUsageDone("tick", report)
  \/ \E outcome \in TickOutcomes : TokenExchanged("tick", outcome, 1, 2)
  \/ \E data \in TickUsages : WebUsageDone("tick", data)
  \/ Respond("tick")

SpecNoKey == InitNoKey /\ [][NextNoKey]_vars

\* ------------------------------------------------ getClaudeCodeMonthUsage
BATCH_SIZE == 5

\* what the analytics endpoint answers to the request for one page:
\*   "last"   200, one record, has_more false
\*   "more"   200, one record, has_more true
\*   "empty"  200, no data field, has_more false
\*   "status" a response whose ok is false
\*   "error"  fetch or res.json() rejects
PageKinds == {"last", "more", "empty", "status", "error"}

DayRecord(day, page) == << day, page >>

NewDay == [page |-> 1, allData |-> << >>, settled |-> FALSE, threw |-> FALSE,
           value |-> << >>]

\* the promise of a call that has returned or thrown: its locals are gone
Settled(threw, value) ==
  [NewDay EXCEPT !.settled = TRUE, !.threw = threw, !.value = value]

\* one turn of the while loop of fetchDayData, from the response on
fetchDayData(st, day, kind) ==
  CASE kind = "error"  -> Settled(TRUE, << >>)
    [] kind = "status" -> Settled(FALSE, << >>)
    [] kind = "empty"  -> Settled(FALSE, st.allData)
    [] kind = "last"   ->
         Settled(FALSE, Append(st.allData, DayRecord(day, st.page)))
    [] kind = "more"   ->
         [st EXCEPT !.page = @ + 1,
                    !.allData = Append(@, DayRecord(day, st.page))]

\* a batch entry without the .catch
SkipDay_Rethrown(st) == st

\* fetchDayData(...).catch((err) => [])
SkipDay(st) ==
  IF st.threw THEN [st EXCEPT !.threw = FALSE, !.value = << >>] ELSE st

BatchDays(i, maxDay) ==
  { j \in i..(i + BATCH_SIZE - 1) : j <= maxDay }

\* results.flat() of the days from..to, in the order they were pushed
RECURSIVE Flat(_, _, _)
Flat(days, from, to) ==
  IF from > to THEN << >>
  ELSE days[from].value \o Flat(days, from + 1, to)

InitMonthUsage ==
  /\ \E maxDay \in 1..MaxDays :
       applied = [fn |-> "month", maxDay |-> maxDay, i |-> 1,
                  days |-> [j \in BatchDays(1, maxDay) |-> NewDay],
                  allData |-> << >>, phase |-> "batch",
                  served |-> [j \in 1..maxDay |-> << >>], failed |-> {},
                  partial |-> FALSE]
  /\ accounts = [id \in {1} |-> CopilotAccount(1, "pro", "", << >>, FALSE)]
  /\ userOrgs = << >>
  /\ InitStore /\ InitApi /\ InitTimers
  /\ pool = NoPool

\* the response for one page of day d arrives; served[d] are the records the
\* endpoint has served for day d while no request for it has failed, failed the
\* days a request for which failed, partial whether one failed after a page
\* of it had been read
DayPage(d, kind) ==
  /\ applied.fn = "month" /\ applied.phase = "batch"
  /\ d \in DOMAIN applied.days
  /\ ~applied.days[d].settled
  /\ kind = "more" => applied.days[d].page < MaxPages
  /\ applied' =
       [applied EXCEPT
          !.days[d] = SkipDay(fetchDayData(@, d, kind)),
          !.served[d] = CASE kind \in {"last", "more"} ->
                               Append(@, DayRecord(d, applied.days[d].page))
                          [] kind \in {"status", "error"} -> << >>
                          [] OTHER -> @,
          !.failed = IF kind \in {"status", "error"} THEN @ \cup {d} ELSE @,
          !.partial = @ \/ ( /\ kind \in {"status", "error"}
                             /\ applied.served[d] # << >> )]
  /\ AppliedStep

\* await Promise.all(batch) resumes, and the for loop goes round
BatchDone ==
  /\ applied.fn = "month" /\ applied.phase = "batch"
  /\ \A d \in DOMAIN applied.days : applied.days[d].settled
  /\ LET last == applied.i + Cardinality(DOMAIN applied.days) - 1
         next == applied.i + BATCH_SIZE
     IN applied' =
          IF \E d \in DOMAIN applied.days : applied.days[d].threw
          THEN [applied EXCEPT !.phase = "threw"]
          ELSE [applied EXCEPT
                  !.allData = @ \o Flat(applied.days, applied.i, last),
                  !.i = next,
                  !.days = [j \in BatchDays(next, applied.maxDay) |-> NewDay],
                  !.phase = IF next <= applied.maxDay THEN "batch"
                            ELSE "returned"]
  /\ AppliedStep

NextMonthUsage ==
  \/ \E d \in 1..MaxDays, kind \in PageKinds : DayPage(d, kind)
  \/ BatchDone

SpecMonthUsage == InitMonthUsage /\ [][NextMonthUsage]_vars

\* ------------------------------------------------ the dashboard's pool
InitPool ==
  /\ \E paused \in [1..MaxIds -> BOOLEAN] :
       accounts = [i \in 1..MaxIds |-> CopilotAccount(i, "pro", "", << >>, paused[i])]
  /\ userOrgs = << >>
  /\ InitRest

NextPool ==
  \/ refreshAll
  \/ ServeRefreshAll
  \/ ListArrived
  \/ ListFailed
  \/ \E id \in 1..MaxIds, ok \in BOOLEAN : RefreshOneSettled(id, ok)

SpecPool == InitPool /\ [][NextPool]_vars

\* ----------------------------------- deletes between the steps of refreshes
InitDelete ==
  /\ \E type \in TickTypes :
       accounts = [i \in AccountIds |-> TickAccount(i, type[i], FALSE, FALSE)]
  /\ userOrgs = << >>
  /\ InitRest

DeleteResponses == { Response(TRUE, GptItems), Response(FALSE, NoItems) }

NextDelete ==
  \/ \E id \in AccountIds : PostRefresh("req1", id)
  \/ \E p \in {"req1"} :
       \/ PreUserDone(p)
       \/ GetUserDone(p)
       \/ GetUserOrgsDone(p, << >>)
       \/ \E resp \in DeleteResponses : UserProbeDone(p, resp)
       \/ \E report \in TickReports : ClaudeUsageDone(p, report)
       \/ \E outcome \in TickOutcomes : TokenExchanged(p, outcome, 1, 2)
       \/ \E data \in TickUsages : WebUsageDone(p, data)
       \/ PostOrgsDone(p, << >>)
       \/ Respond(p)
  \/ \E id \in AccountIds : DeleteAccount(id)

SpecDelete == InitDelete /\ [][NextDelete]_vars

\* -------------------------------- adds and refreshes that report a login
InitUnique ==
  /\ accounts = (1 :> CopilotAccount(1, "pro", "", << >>, FALSE))
  /\ userOrgs = << >>
  /\ InitRest

Logins == { UserName(i) : i \in AccountIds }

UserAnswers == { UserAnswer(FALSE, "") } \cup { UserAnswer(TRUE, n) : n \in Logins }

\* req1 refreshes and adds, req2 adds; the usage endpoints answer with an error
NextUnique ==
  \/ \E id \in AccountIds : PostRefresh("req1", id)
  \/ \E user \in UserAnswers : PreUserAnswered("req1", user)
  \/ \E user \in UserAnswers : GetUserAnswered("req1", user)
  \/ GetUserOrgsDone("req1", << >>)
  \/ PostOrgsDone("req1", << >>)
  \/ \E p \in Requests :
       \/ \E login \in Logins : PostAddPat(p, login)
       \/ \E valid \in BOOLEAN : AddVerified(p, valid, 1)
       \/ UserProbeDone(p, Response(FALSE, NoItems))
       \/ Respond(p)

SpecUnique == InitUnique /\ [][NextUnique]_vars

\* ------------------------- every operation that writes a credential column
InitVault ==
  /\ accounts = (1 :> ClaudeWebAccount(1, 2, FALSE))
  /\ userOrgs = << >>
  /\ InitRest

\* the login the stored account goes by, and one that is new
VaultLogins == { "u1", "u2" }

\* one request at a time: a refresh, an edit, an add or an OAuth poll; the
\* usage endpoints of GitHub answer with an error
NextVault ==
  \/ \E id \in AccountIds : PostRefresh("req1", id)
  \/ PreUserDone("req1")
  \/ GetUserDone("req1")
  \/ GetUserOrgsDone("req1", << >>)
  \/ PostOrgsDone("req1", << >>)
  \/ \E outcome \in TickOutcomes : TokenExchanged("req1", outcome, 1, 2)
  \/ \E data \in TickUsages : WebUsageDone("req1", data)
  \/ \E login \in VaultLogins : GetOAuthPoll("req1", login)
  \/ \E granted, billingWorks \in BOOLEAN :
       OAuthGranted("req1", granted, billingWorks, 1, 2)
  \/ EditSteps("req1")
  \/ \E login \in VaultLogins : PostAddPat("req1", login)
  \/ \E valid \in BOOLEAN : AddVerified("req1", valid, 2)
  \/ UserProbeDone("req1", Response(FALSE, NoItems))
  \/ Respond("req1")

SpecVault == InitVault /\ [][NextVault]_vars

\* ------------------------------------------- the pool behind the rate limiter
\* the middleware's bookkeeping for a non-GET request of the page
Counted(h, path, r) ==
  /\ WindowAfter(windows[ClientKey(h)], clock).n <= MaxCount
  /\ rateLimitMap' = r.map
  /\ windows' = [windows EXCEPT ![ClientKey(h)] = WindowAfter(@, clock)]
  /\ lastReq' = [key |-> ClientKey(h), method |-> "POST", path |-> path,
                 checked |-> TRUE, limited |-> r.limited, handled |-> ~r.limited,
                 mutated |-> FALSE, nth |-> WindowAfter(windows[ClientKey(h)], clock).n]
  /\ UNCHANGED << accounts, usage_history, usage_detail, nextHistoryId, today,
                  clock, issued, userOrgs, proc, lastFetch, activeFlows,
                  timerVars, applied >>

\* the page's POST /refresh-all reaches the server: the middleware, then the
\* handler unless it answered 429 (r.json() then throws on the page)
PostRefreshAllFrom(h) ==
  /\ pool.pc = "list"
  /\ LET r == Admit(rateLimitMap, "POST", ClientKey(h), clock)
     IN /\ refreshAllIds' = IF r.limited THEN refreshAllIds
                            ELSE activeIds(getAllAccounts(DB))
        /\ pool' = [pool EXCEPT !.pc = IF r.limited THEN "refused" ELSE "listed",
                                !.rejected = IF r.limited THEN @ \cup {0} ELSE @]
        /\ Counted(h, "/refresh-all", r)

\* the 429 is not JSON: r.json() rejects and the outer .catch runs
ListRefused ==
  /\ pool.pc = "refused"
  /\ pool' = [pool EXCEPT !.running = FALSE, !.pc = "idle"]
  /\ UNCHANGED refreshAllIds
  /\ PoolStep

\* a request of the pool, POST /refresh/:id, reaches the server: the
\* middleware, then the handler unless it answered 429 (the handler's own
\* steps are those of PostRefresh)
PostRefreshFrom(h, id) ==
  /\ pool.pc = "run"
  /\ id \in pool.inflight \ pool.answered
  /\ LET r == Admit(rateLimitMap, "POST", ClientKey(h), clock)
     IN /\ pool' = [pool EXCEPT !.answered = @ \cup {id},
                                !.rejected = IF r.limited THEN @ \cup {id} ELSE @]
        /\ Counted(h, "/refresh/:id", r)
  /\ UNCHANGED refreshAllIds

\* the answer to a request of the pool arrives at the page
RefreshOneAnswered(id) ==
  /\ id \in pool.answered
  /\ RefreshOneSettled(id, TRUE)

\* an account for every request a window admits, none of them paused
FloodIds == 1..RATE_LIMIT_MAX

FloodAccount(i) ==
  [CopilotAccount(1, "pro", "", << >>, FALSE)
     EXCEPT !.id = i, !.github_username = "u" \o ToString(i)]

InitFlood ==
  /\ accounts = [i \in FloodIds |-> FloodAccount(i)]
  /\ userOrgs = << >>
  /\ InitRest

\* the requests of the pool reach the server in the order they were sent in,
\* and so do their answers the page
SentAs(id, n) == n <= Len(pool.requested) /\ pool.requested[n] = id

NextFlood ==
  \/ refreshAll
  \/ PostRefreshAllFrom(Client)
  \/ ListArrived
  \/ ListRefused
  \/ \E id \in FloodIds : SentAs(id, Cardinality(pool.answered) + 1)
                            /\ PostRefreshFrom(Client, id)
  \/ \E id \in FloodIds : SentAs(id, pool.completed + 1)
                            /\ RefreshOneAnswered(id)

SpecFlood == InitFlood /\ [][NextFlood]_vars

\* ------------------------------------------- the scheduler and a manual refresh
\* a Claude web account and a Claude Code or Copilot account, either of which
\* may come first in the scheduler's order
MixIds == {1, 2}

InitMix ==
  /\ \E type \in {"claude_code", "copilot"}, favorite \in BOOLEAN :
       accounts = (1 :> TickAccount(1, "claude_web", FALSE, FALSE))
                    @@ (2 :> TickAccount(2, type, FALSE, favorite))
  /\ userOrgs = << >>
  /\ InitRest

MixSteps(p) ==
  \/ GetUserDone(p)
  \/ GetUserOrgsDone(p, << >>)
  \/ \E resp \in DeleteResponses : UserProbeDone(p, resp)
  \/ \E report \in TickReports : ClaudeUsageDone(p, report)
  \/ ClaudeDaysFailed(p)
  \/ \E outcome \in TickOutcomes : TokenExchanged(p, outcome, 1, 2)
  \/ \E data \in TickUsages : WebUsageDone(p, data)
  \/ Respond(p)

NextMix ==
  \/ TimerFire
  \/ MixSteps("tick")
  \/ \E id \in MixIds : PostRefresh("req1", id)
  \/ PreUserDone("req1")
  \/ PostOrgsDone("req1", << >>)
  \/ MixSteps("req1")

SpecMix == InitMix /\ [][NextMix]_vars

\* ---------------------------------------------------- the timer keeps firing
\* a Claude Code account and a Copilot account, refreshed by the scheduler
InitOverlap ==
  /\ accounts = (1 :> ClaudeCodeAccount(1, FALSE))
                  @@ (2 :> CopilotAccount(2, "pro", "", << >>, FALSE))
  /\ userOrgs = << >>
  /\ InitRest

TickSteps(p) ==
  \/ GetUserDone(p)
  \/ GetUserOrgsDone(p, << >>)
  \/ \E resp \in TickResponses : UserProbeDone(p, resp)
  \/ \E report \in TickReports : ClaudeUsageDone(p, report)
  \/ Respond(p)

NextOverlap ==
  \/ TimerFire
  \/ TimerFireDuring
  \/ TickSteps("tick")
  \/ TickSteps("tick2")

SpecOverlap == InitOverlap /\ [][NextOverlap]_vars

\* ------------------------------------------------------------ vocabulary
IsPrefix(s, t) == Len(s) <= Len(t) /\ \A i \in 1..Len(s) : s[i] = t[i]

OrgChain(org) == << Call("org_pr_user", org), Call("org_pr", org), Call("org_bill", org) >>

RECURSIVE ScanChain(_, _)
ScanChain(orgs, billingOrg) ==
  IF orgs = <<>> THEN <<>>
  ELSE (IF Head(orgs) = billingOrg THEN <<>> ELSE OrgChain(Head(orgs)))
       \o ScanChain(Tail(orgs), billingOrg)

\* billing_org filtered, unfiltered, general; personal premium-request,
\* personal general; then the remaining organizations
FixedOrder(billingOrg, allOrgs) ==
  (IF billingOrg # "" THEN OrgChain(billingOrg) ELSE <<>>)
  \o << Call("user_pr", ""), Call("user_bill", "") >>
  \o ScanChain(allOrgs, billingOrg)

\* the condition under which the claims expect an organization scan
WantsScan(l) == l.billingOrg # "" \/ l.plan \in {"business", "enterprise"}

\* the ids of the rows that are not paused, in the rows' order
NotPausedIds(rows) ==
  LET active == SelectSeq(rows, LAMBDA a : ~a.is_paused)
  IN [i \in 1..Len(active) |-> active[i].id]

\* the row of the key of v holds the values of v
RowHolds(v) ==
  \E r \in usage_history :
    /\ SameKey(r, v) /\ r.gross_quantity = v.gross_quantity
    /\ r.plan_limit = v.plan_limit /\ r.percentage = v.percentage

\* two refresh requests of the same account and month, both through with
\* their provider fetches
Raced(p, q) ==
  /\ p # q /\ proc[p].kind = "refresh" /\ proc[q].kind = "refresh"
  /\ proc[p].saved # NoSaved /\ proc[q].saved # NoSaved
  /\ SameKey(proc[p].saved, proc[q].saved)

\* the handler is inside fetchAndStoreUsage / has been through it
InChain(l) == l.pc \in {"probe", "scanOrgs"}
PastChain(l) == l.calls # <<>> /\ ~InChain(l)

HasRow(id, year, month) ==
  \E r \in usage_history : r.account_id = id /\ r.year = year /\ r.month = month

RowOf(id, year, month) ==
  CHOOSE r \in usage_history : r.account_id = id /\ r.year = year /\ r.month = month

DetailModels(history_id) ==
  LET ds == getUsageDetails(DB, history_id)
  IN [i \in 1..Len(ds) |-> [model |-> ds[i].model, quantity |-> ds[i].quantity]]

\* C1: a Copilot refresh probes its sources in the fixed order, persists the
\* result of the first source with grossQuantity > 0 and calls no source after it
C1_FallbackOrder ==
  \A p \in Procs :
    LET l == proc[p]
    IN /\ IsPrefix(l.calls, FixedOrder(l.billingOrg, l.allOrgs))
       /\ l.hit =>
            /\ ~InChain(l)
            /\ Len(l.calls) = l.misses + 1
            /\ l.result.grossQuantity > 0
            /\ HasRow(l.id, l.year, l.month)
            /\ RowOf(l.id, l.year, l.month).gross_quantity = l.result.grossQuantity
            /\ RowOf(l.id, l.year, l.month).percentage = l.result.percentage
       /\ ~l.hit => Len(l.calls) = l.misses + (IF l.pc = "probe" THEN 1 ELSE 0)

\* the billing org's filtered endpoint answered zero, its unfiltered endpoint
\* non-zero: the refresh has stopped there
C1_Witness ==
  \E p \in Procs :
    /\ proc[p].hit /\ ~proc[p].anyErr
    /\ proc[p].calls = << Call("org_pr_user", "A"), Call("org_pr", "A") >>

\* C2: a Copilot refresh all of whose sources failed leaves the existing usage
\* row unchanged (stated for the step in which the refresh leaves the chain)
C2_NoZeroOverwrite ==
  [][\A p \in Procs :
       ( /\ InChain(proc[p]) /\ ~InChain(proc'[p])
         /\ proc'[p].anyErr /\ ~proc'[p].anyOk
         /\ \E r \in usage_history :
              /\ r.account_id = proc[p].id /\ r.year = proc[p].year
              /\ r.month = proc[p].month /\ r.gross_quantity > 0 )
       => usage_history' = usage_history]_vars

\* C4: after a refresh has persisted, the detail rows of the refreshed row
\* are exactly the per-model rows of that refresh's result
C4_DetailsReplaced ==
  \A p \in Procs :
    LET l == proc[p]
    IN (PastChain(l) /\ HasRow(l.id, l.year, l.month))
       => DetailModels(RowOf(l.id, l.year, l.month).id) = l.result.models

\* C9 as claimed: the organization scan runs exactly when the plan is business
\* or enterprise or a billing_org was set, and the first scanned organization
\* with usage is written to the account's billing_org
C9_ScanWritesBillingOrg ==
  \A p \in Procs :
    LET l == proc[p]
    IN /\ l.scan => WantsScan(l)
       /\ (l.hit /\ l.scan) => getAccountById(DB, l.id).billing_org = l.org

\* every organization of the list other than the billing org has been probed
ScannedAll(l) ==
  \A i \in 1..Len(l.allOrgs) :
    l.allOrgs[i] # l.billingOrg => Call("org_bill", l.allOrgs[i]) \in Range(l.calls)

ScanCalls(l) ==
  { c \in Range(l.calls) : c.org # "" /\ c.org # l.billingOrg }

\* C9 amended: the scan runs exactly when the plan is business or enterprise
\* or a billing_org was set; the first scanned organization with usage is
\* written to billing_org when the refresh ran without a billing_org, and a
\* billing_org that was set is kept
C9_ScanWritesMissingBillingOrg ==
  \A p \in Procs :
    LET l == proc[p]
    IN /\ (l.scan \/ ScanCalls(l) # {} \/ l.pc = "scanOrgs") => WantsScan(l)
       /\ (PastChain(l) /\ ~l.hit /\ WantsScan(l)) => ScannedAll(l)
       /\ (PastChain(l) /\ ~WantsScan(l)) => ScanCalls(l) = {}
       /\ (l.hit /\ l.scan) =>
            getAccountById(DB, l.id).billing_org =
              (IF l.billingOrg = "" THEN l.org ELSE l.billingOrg)

\* a scan found usage in an organization and healed the missing billing_org
C9_Witness ==
  \E p \in Procs :
    /\ proc[p].hit /\ proc[p].scan /\ proc[p].billingOrg = ""
    /\ proc[p].acc.billing_org = ""
    /\ accounts[proc[p].id].billing_org = proc[p].org

\* the scenario of C10 as far as a finished refresh shows it: no billing_org,
\* organizations [A, B], every answer before B's unfiltered endpoint was zero,
\* and B's unfiltered endpoint, if asked, answered grossQuantity 50
SelfHealScenario(l) ==
  /\ l.kind = "refresh" /\ PastChain(l)
  /\ l.acc.billing_org = "" /\ l.acc.github_orgs = << "A", "B" >>
  /\ l.allOrgs = << "A", "B" >>
  /\ ~l.anyErr
  /\ IF l.hit
     THEN l.calls[Len(l.calls)] = Call("org_pr", "B") /\ l.result.grossQuantity = 50
     ELSE Call("org_pr", "B") \notin Range(l.calls)

Healed(l) ==
  /\ getAccountById(DB, l.id).billing_org = "B"
  /\ HasRow(l.id, l.year, l.month)
  /\ RowOf(l.id, l.year, l.month).gross_quantity = 50

\* C10 as claimed: in the scenario, whatever the plan, the refresh sets
\* billing_org to B and persists B's values
C10_SelfHealAnyPlan ==
  \A p \in Procs : SelfHealScenario(proc[p]) => Healed(proc[p])

\* C10 amended: in the scenario, for an account whose plan is business or
\* enterprise, the refresh sets billing_org to B and persists B's values
C10_SelfHealOrgPlan ==
  \A p \in Procs :
    (SelfHealScenario(proc[p]) /\ proc[p].plan \in {"business", "enterprise"})
      => Healed(proc[p])

C10_Witness ==
  \E p \in Procs :
    /\ SelfHealScenario(proc[p]) /\ proc[p].plan = "business"
    /\ proc[p].hit /\ Healed(proc[p])

\* C3: usage_history holds at most one row per (account_id, year, month), and
\* the row of a key holds the values of the latest upsert on that key
C3_UpsertUnique ==
  /\ \A r, q \in usage_history : SameKey(r, q) => r = q
  /\ \A p \in Procs :
       (lastFetch = p /\ proc[p].saved # NoSaved) => RowHolds(proc[p].saved)

\* two handlers have upserted the same key: usage first, the zero row second
C3_Witness ==
  \E p, q \in Procs :
    /\ Raced(p, q) /\ lastFetch = p
    /\ proc[q].saved.gross_quantity > 0 /\ proc[p].saved.gross_quantity = 0
    /\ Cardinality(usage_history) = 1 /\ nextHistoryId = 2

\* C5: a scheduler tick attempts the non-paused accounts of its account set
\* one after the other in the set's order, each once, and has attempted all
\* of them when it ends, whether or not a refresh threw
C5_TickAttemptsAll ==
  LET l == proc["tick"]
  IN l.kind = "tick" =>
       /\ IsPrefix(l.attempted, NotPausedIds(l.snapshot))
       /\ l.threw \subseteq Range(l.attempted)
       /\ l.pc = "done" => l.attempted = NotPausedIds(l.snapshot)
       /\ l.pc # "done" => l.attempted # <<>> /\ l.id = l.attempted[Len(l.attempted)]

\* a finished tick in which a refresh threw and a later account was attempted
C5_Witness ==
  LET l == proc["tick"]
  IN /\ l.kind = "tick" /\ l.pc = "done"
     /\ \E i, j \in 1..Len(l.attempted) : i < j /\ l.attempted[i] \in l.threw

\* C6: a tick never attempts, nor is in a network call for, an account that is
\* paused in the account set it read; the ids POST /refresh-all returns are
\* ids of accounts that are not paused
C6_PausedSkipped ==
  [][ /\ LET l == proc'["tick"]
             paused == { l.snapshot[i].id : i \in { k \in 1..Len(l.snapshot) :
                                                      l.snapshot[k].is_paused } }
         IN /\ Range(l.attempted) \cap paused = {}
            /\ l.pc \notin {"idle", "done"} => l.id \notin paused
      /\ refreshAllIds' # refreshAllIds =>
            \A i \in 1..Len(refreshAllIds') : ~accounts[refreshAllIds'[i]].is_paused
    ]_vars

\* a finished tick that refreshed some account and skipped one that was paused
\* when it started and has been resumed since; a bulk answer that left out a
\* paused account
C6_Witness ==
  LET l == proc["tick"]
  IN /\ l.kind = "tick" /\ l.pc = "done" /\ l.attempted # <<>>
     /\ \E i \in 1..Len(l.snapshot) :
          /\ l.snapshot[i].is_paused /\ ~accounts[l.snapshot[i].id].is_paused
          /\ l.snapshot[i].id \notin Range(l.attempted)
     /\ refreshAllIds # <<>>
     /\ \E id \in AccountIds : accounts[id].is_paused /\ id \notin Range(refreshAllIds)

\* C7: no handler sends a freshly exchanged access token to the usage endpoint
\* before the exchanged tokens are in the account's stored fields
C7_StoredBeforeUse ==
  \A p \in Procs : ~proc[p].unrecorded

\* C8: when two refreshes of the same account and month have both finished
\* their fetches, the row holds the values of the one whose fetch settled last
C8_LastFetchWins ==
  \A p, q \in Procs :
    (Raced(p, q) /\ lastFetch = p /\ PastChain(proc[p]) /\ PastChain(proc[q]))
      => /\ RowHolds(proc[p].saved)
         /\ proc[p].saved.gross_quantity = proc[p].result.grossQuantity
         /\ proc[p].saved.percentage = proc[p].result.percentage

\* both refreshes found usage, with different totals
C8_Witness ==
  \E p, q \in Procs :
    /\ Raced(p, q) /\ lastFetch = p /\ proc[p].hit /\ proc[q].hit
    /\ proc[p].saved.gross_quantity # proc[q].saved.gross_quantity
    /\ RowHolds(proc[p].saved)

\* C11: a Copilot refresh all of whose probed sources answered successfully
\* with grossQuantity = 0 leaves a row for the current month with
\* gross_quantity 0 and percentage 0
C11_ZeroRowWritten ==
  \A p \in Procs :
    LET l == proc[p]
    IN (PastChain(l) /\ l.anyOk /\ ~l.anyErr /\ ~l.hit)
       => /\ HasRow(l.id, l.year, l.month)
          /\ RowOf(l.id, l.year, l.month).gross_quantity = 0
          /\ RowOf(l.id, l.year, l.month).percentage = 0

\* the billing org's three endpoints and both personal endpoints answered
\* zero, and the zero row is the account's first row
C11_Witness ==
  \E p \in Procs :
    LET l == proc[p]
    IN /\ PastChain(l) /\ l.anyOk /\ ~l.anyErr /\ ~l.hit
       /\ Len(l.calls) >= 5 /\ l.misses = Len(l.calls)
       /\ usage_history = { [id |-> 1, account_id |-> l.id, year |-> l.year,
                             month |-> l.month, gross_quantity |-> 0,
                             plan_limit |-> PlanLimit(l.plan), percentage |-> 0] }

\* C12: when the token endpoint answers an exchange with invalid_grant the
\* handler makes no further exchange and no usage call, a refresh request
\* fails with the re-login error, and the stored accounts (tokens, expiry) and
\* the usage rows are left as they were
C12_InvalidGrantTerminal ==
  [][\A p \in Procs :
       ( /\ proc[p].pc = "exchange"
         /\ proc'[p].gvt.exchanges = proc[p].gvt.exchanges + 1
         /\ proc'[p].gvt.grant = "invalid_grant" )
       => /\ accounts' = accounts
          /\ usage_history' = usage_history /\ usage_detail' = usage_detail
          /\ proc'[p].pc \in {"failed", "done"}
          /\ proc'[p].gvt.exchanges = 1
          /\ proc[p].kind = "refresh" =>
                proc'[p].pc = "failed" /\ proc'[p].err = "invalid_grant"]_vars

\* a refresh of an account that has a usage row has failed on invalid_grant;
\* the row and the stored tokens are those it started with
C12_Witness ==
  \E p \in Procs :
    LET l == proc[p]
    IN /\ l.kind = "refresh" /\ l.pc = "failed" /\ l.err = "invalid_grant"
       /\ l.gvt.exchanges = 1 /\ usage_history # {}
       /\ accounts[l.id] = l.acc
       /\ decrypt(accounts[l.id].claude_cf_clearance) = l.gvt.given.refreshToken

\* getValidToken has returned
Returned(l) == l.gvt.made /\ (~l.gvt.needed \/ l.gvt.grant = "ok")

C14_NeedsRefresh ==
  \A p \in Procs :
    LET g == proc[p].gvt
    IN g.made =>
         /\ g.needed <=> (g.given.expiresAt = 0 \/ g.at >= g.given.expiresAt - 5)
         /\ g.given.expiresAt = g.at + 4 => g.needed
         /\ g.given.expiresAt = g.at + 10 => ~g.needed

\* one call with an expiry 4 minutes ahead, one with an expiry 10 minutes ahead
C14_Witness ==
  \E p, q \in Procs :
    /\ proc[p].gvt.made /\ proc[p].gvt.given.expiresAt = proc[p].gvt.at + 4
    /\ proc[p].gvt.needed
    /\ proc[q].gvt.made /\ proc[q].gvt.given.expiresAt = proc[q].gvt.at + 10
    /\ ~proc[q].gvt.needed


\* C15: for one client key within one 60-second window, the first 30 non-GET
\* requests to /api reach their handler, and the 31st and every later request
\* of that window is answered 429 without its handler being invoked.
C15_WindowLimit ==
  lastReq.checked =>
    /\ lastReq.nth <= RATE_LIMIT_MAX => lastReq.handled /\ ~lastReq.limited
    /\ lastReq.nth > RATE_LIMIT_MAX => lastReq.limited /\ ~lastReq.handled


\* C16: every API entry point that changes stored state (accounts, usage rows,
\* settings or device-flow sessions) passes the rate-limit check before its
\* handler runs.
C16_MutationsChecked == lastReq.mutated => lastReq.checked

InMap(map, key) == EntryIndex(map, key) # 0

\* a step of cleanupRateLimits that deleted something
CleanupStep == windows' = windows /\ rateLimitMap' # rateLimitMap

Entries(map) == { map[i] : i \in 1..Len(map) }

Expired(e) == clock - e.start > RATE_LIMIT_WINDOW * 2

\* C17: each run of cleanupRateLimits removes every entry whose window started
\* more than 120 seconds ago, and if more than MAX_MAP_SIZE entries then remain
\* it evicts entries in ascending window-start order, so that afterwards the
\* table holds at most MAX_MAP_SIZE entries and no evicted entry is newer than
\* a kept one.
C17_CleanupBounded ==
  [][CleanupStep =>
       LET old == Entries(rateLimitMap)
           kept == Entries(rateLimitMap')
           live == { e \in old : ~Expired(e) }
           evicted == live \ kept
       IN /\ kept \subseteq live
          /\ Len(rateLimitMap') <= MAX_MAP_SIZE
          /\ evicted # {} => Cardinality(live) > MAX_MAP_SIZE
                             /\ Len(rateLimitMap') = MAX_MAP_SIZE
          /\ \A e \in evicted, k \in kept : e.start <= k.start]_vars

\* the cleanup has purged one key by age and evicted another, younger than 120
\* seconds, in favour of a newer entry
C17_Witness ==
  \E k1 \in Keys, k2 \in Keys :
    /\ k1 # k2
    /\ windows[k1].n > 0 /\ ~InMap(rateLimitMap, k1)
    /\ clock - windows[k1].start > RATE_LIMIT_WINDOW * 2
    /\ windows[k2].n > 0 /\ ~InMap(rateLimitMap, k2)
    /\ clock - windows[k2].start <= RATE_LIMIT_WINDOW * 2
    /\ Len(rateLimitMap) = MAX_MAP_SIZE
    /\ \A e \in Entries(rateLimitMap) : e.start > windows[k2].start


\* C18: at every moment at most one auto-refresh interval timer is registered:
\* each startAutoRefresh call (at startup or after POST /settings/auto-refresh)
\* clears the previously registered timer before registering the new one.
C18_SingleTimer ==
  /\ Cardinality(DOMAIN timers) <= 1
  /\ autoRefreshTimer # 0 => DOMAIN timers = {autoRefreshTimer}

\* the interval was changed at runtime: the timer of the startup is gone and
\* the one registered runs at the posted interval
C18_Witness ==
  /\ env = NoSetting
  /\ app_settings = << "5" >>
  /\ autoRefreshTimer = 2
  /\ DOMAIN timers = {2}
  /\ timers[2] = Num(5 * 60 * 1000)

\* the value the settings supply, if any
Configured == IF app_settings # NoSetting THEN app_settings ELSE env

\* C19: the interval with which the auto-refresh timer is scheduled is always
\* between 1 and 1440 minutes, and is 60 minutes when no valid value is
\* configured, whichever source (stored setting or AUTO_REFRESH_MINUTES)
\* supplies it.
C19_IntervalBounds ==
  \A h \in DOMAIN timers :
    /\ ~timers[h].nan
    /\ timers[h].v >= 1 * 60 * 1000
    /\ timers[h].v <= MaxMinutes * 60 * 1000
    /\ parseInt(Configured).nan => timers[h].v = DefaultMinutes * 60 * 1000


\* the tick is inside a refreshAccount call, waiting for a provider
Waiting(p) == proc[p].pc \notin {"idle", "done", "failed"}

\* C20: every outbound HTTP call made during a refresh is bounded by a request
\* timeout, so every refreshAccount call, and hence every scheduler tick,
\* eventually terminates even if a provider never answers.
C20_TickTerminates == Waiting("tick") ~> At("tick", "done")


\* the quantity of the line items whose product reads copilot in any case
RECURSIVE CopilotSum(_)
CopilotSum(data) ==
  IF data = << >> THEN 0
  ELSE LET i == Head(data)
           mine == i.product \in {"copilot", "Copilot", "COPILOT"}
           qty == IF i.grossQuantity # 0 THEN i.grossQuantity ELSE i.quantity
       IN (IF mine THEN qty ELSE 0) + CopilotSum(Tail(data))

\* tenths is x / y * 100 rounded to one decimal, in tenths of a percent
RoundedTenths(tenths, x, y) ==
  /\ 2 * tenths * y - y <= 2000 * x
  /\ 2000 * x < 2 * tenths * y + y

\* C30: parseUsageData sums only line items whose product is Copilot and
\* returns percentage = grossQuantity / planLimit * 100 rounded to one decimal
\* (0 when planLimit is 0); for plan pro (limit 300) and an answer with
\* grossQuantity 120 the persisted percentage is 40.0.
C30_ParseUsage ==
  (applied.fn = "parseUsageData" /\ applied.done) =>
    LET out == applied.out
        L == applied.planLimit
    IN /\ out.grossQuantity = CopilotSum(applied.data)
       /\ L = 0 => out.percentage = 0
       /\ L > 0 => RoundedTenths(out.percentage, out.grossQuantity, L)
       /\ (L = 300 /\ out.grossQuantity = 120) => out.percentage = 400
       /\ \A r \in usage_history :
            /\ r.gross_quantity = out.grossQuantity
            /\ r.percentage = out.percentage
            /\ (r.plan_limit = 300 /\ r.gross_quantity = 120) => r.percentage = 400

\* plan pro, a Copilot item of 120 beside an item of another product: 40.0 stored
C30_Witness ==
  /\ applied.fn = "parseUsageData" /\ applied.done
  /\ applied.data = << Item("actions", 50, 0, "", "minutes"),
                       Item("Copilot", 120, 0, "gpt", "") >>
  /\ \E r \in usage_history :
       r.account_id = 1 /\ r.plan_limit = 300 /\ r.gross_quantity = 120
       /\ r.percentage = 400


Opened == applied.fn = "crypto" /\ applied.stage = "opened"

Tampered ==
  /\ Len(applied.data) >= 3 /\ Len(applied.sealed) = 3
  /\ applied.data[1] = applied.sealed[1]
  /\ applied.data[2] # applied.sealed[2] \/ applied.data[3] # applied.sealed[3]

NoKey(id) == decrypt(accounts[id].pat_token) = 0

RowsOf(rows, id) == { r \in rows : r.account_id = id }

\* C24: if an account's pat_token is empty or fails to decrypt, refreshAccount
\* returns without raising an error, makes no network call and changes no
\* stored state.
C24_NoKeyNoEffect ==
  [][\A id \in AccountIds :
       NoKey(id) =>
         /\ accounts'[id] = accounts[id]
         /\ RowsOf(usage_history', id) = RowsOf(usage_history, id)
         /\ usage_detail' # usage_detail => proc["tick"].id # id
         /\ ~(Waiting("tick")' /\ proc'["tick"].id = id)
         /\ id \notin proc'["tick"].threw]_vars

\* a tick has called refreshAccount for an account without a key and for one
\* with a key, and only the second has a usage row
C24_Witness ==
  /\ At("tick", "done")
  /\ \E id \in AccountIds, other \in AccountIds :
       /\ NoKey(id) /\ accounts[id].pat_token = BadCipher
       /\ id \in Range(proc["tick"].attempted)
       /\ RowsOf(usage_history, id) = {}
       /\ other \in Range(proc["tick"].attempted)
       /\ RowsOf(usage_history, other) # {}


\* ---------------------------------------------------------------- C27
\* what the endpoint served for the days from..to, the failed days left out
RECURSIVE ServedBy(_, _, _)
ServedBy(a, from, to) ==
  IF from > to THEN << >>
  ELSE (IF from \in a.failed THEN << >> ELSE a.served[from])
       \o ServedBy(a, from + 1, to)

\* C27: getClaudeCodeMonthUsage never fails because a day failed: its call
\* always returns, and what it returns is, day by day, every record the
\* endpoint served for the days none of whose requests failed, and nothing for
\* a day one of whose requests answered with a non-OK status or threw.
C27_DayFailureSkipped ==
  applied.fn = "month" =>
    /\ applied.phase # "threw"
    /\ applied.phase = "returned" =>
         applied.allData = ServedBy(applied, 1, applied.maxDay)

\* a month of two batches has returned: two days failed, one of them after a
\* page of it was read, and a day of the second batch has its records returned
C27_Witness ==
  /\ applied.fn = "month" /\ applied.phase = "returned"
  /\ applied.maxDay > BATCH_SIZE
  /\ Cardinality(applied.failed) > 1
  /\ applied.partial
  /\ \E d \in 1..applied.maxDay :
       /\ d \notin applied.failed
       /\ d > BATCH_SIZE
       /\ DayRecord(d, 1) \in Range(applied.allData)


\* ---------------------------------------------------------------- C28
\* every usage call the handler made to the provider failed
ProviderFailed(l) == l.anyErr /\ ~l.anyOk

\* C28: a POST /refresh/:id whose provider call failed answers with a card that
\* carries the failure message (renderCard(id, err.message)), and it has
\* written no usage row.
C28_FailureOnCard ==
  \A p \in Requests :
    ( /\ proc[p].kind = "refresh"
      /\ proc[p].pc \in {"done", "failed"}
      /\ ProviderFailed(proc[p]) )
    => /\ proc[p].err # ""
       /\ proc[p].saved = NoSaved


\* ---------------------------------------------------------------- C21
\* s holds every element of t exactly once and nothing else
OnceEach(s, t) ==
  /\ Len(s) = Len(t)
  /\ Range(s) = Range(t)
  /\ \A i, j \in 1..Len(s) : s[i] = s[j] => i = j

\* C21: a manual refresh-all never has more than CONCURRENCY (5) per-account
\* requests in flight; no id is requested twice; while ids wait in the queue
\* the pool is full, and while the run is not over a request is in flight,
\* whatever requests have failed; and when the run is over exactly one request
\* has been sent for every id that POST /refresh-all returned.
C21_PoolOfFive ==
  /\ Cardinality(pool.inflight) <= CONCURRENCY
  /\ pool.active = Cardinality(pool.inflight)
  /\ \A i, j \in 1..Len(pool.requested) :
        pool.requested[i] = pool.requested[j] => i = j
  /\ Range(pool.requested) \subseteq Range(pool.ids)
  /\ pool.pc = "run" =>
       /\ pool.ids = refreshAllIds
       /\ pool.active > 0
       /\ pool.queue # << >> => pool.active = CONCURRENCY
  /\ pool.pc = "idle" => OnceEach(pool.requested, pool.ids)

\* a run over more ids than the pool holds is over; the request for the first
\* id failed, and every id was requested
C21_Witness ==
  /\ pool.pc = "idle" /\ ~pool.running
  /\ Len(pool.ids) > CONCURRENCY
  /\ pool.ids[1] \in pool.failed
  /\ OnceEach(pool.requested, refreshAllIds)


\* ---------------------------------------------------------------- C26
\* C26: every usage_history row references an account that exists and every
\* usage_detail row references a usage_history row that exists, in every state:
\* a delete takes the account's rows and their detail rows with it, and a
\* refresh of the account that is in flight at the delete adds none afterwards.
C26_NoOrphans ==
  /\ \A r \in usage_history : r.account_id \in DOMAIN accounts
  /\ \A i \in 1..Len(usage_detail) :
        \E r \in usage_history : r.id = usage_detail[i].history_id

\* an account that had rows was deleted while a refresh of it was in flight;
\* the refresh went on, its write was refused, and the other account's row is
\* still there
C26_Witness ==
  \E id \in AccountIds \ DOMAIN accounts :
    /\ proc["req1"].kind = "refresh" /\ proc["req1"].id = id
    /\ proc["req1"].err = ForeignKeyError
    /\ nextHistoryId - 1 > Cardinality(usage_history)
    /\ usage_history # {}


\* ---------------------------------------------------------------- C29
\* C29: no two accounts have the same github_username, in every state: not
\* after a refresh that stores the login the provider reports, and not after
\* two add requests for the same login that run side by side.
C29_UniqueUsernames ==
  \A i, j \in DOMAIN accounts :
    accounts[i].github_username = accounts[j].github_username => i = j

\* two accounts exist; a refresh of one was told the login of the other and
\* its update was refused, and an add request for a login that was free when
\* the request came in and taken when its token had been verified was turned
\* away
C29_Witness ==
  /\ Cardinality(DOMAIN accounts) > 1
  /\ \E p, q \in Requests :
       /\ proc[p].kind = "refresh" /\ proc[p].refused
       /\ proc[q].kind = "add" /\ proc[q].free
       /\ proc[q].err = "already exists"


\* ---------------------------------------------------------------- C25
\* c is the empty string or what encrypt gives for some text and some iv
IsCipher(c) ==
  \/ c = NoCipher
  \/ \E text \in HexValues, iv \in IVs : c = encrypt(text, iv)

\* C25: the pat_token, oauth_token and claude_cf_clearance of every account are
\* empty or a ciphertext made by encrypt, in every state.
C25_OnlyCiphertext ==
  \A id \in DOMAIN accounts :
    /\ IsCipher(accounts[id].pat_token)
    /\ IsCipher(accounts[id].oauth_token)
    /\ IsCipher(accounts[id].claude_cf_clearance)

\* the Claude account's tokens have been replaced, and a second account holds
\* an oauth_token and a pat_token
C25_Witness ==
  /\ 1 \in DOMAIN accounts
  /\ accounts[1].pat_token \notin { NoCipher, encrypt(1, 1) }
  /\ accounts[1].claude_cf_clearance \notin { NoCipher, encrypt(2, 1) }
  /\ \E id \in DOMAIN accounts \ {1} :
       /\ accounts[id].oauth_token # NoCipher
       /\ accounts[id].pat_token # NoCipher


\* ---------------------------------------------------------------- billing_org
\* the step of handler p is the answer of an endpoint of organization org
\* with grossQuantity > 0, in a refresh of account id
FoundUsage(p, id, org) ==
  /\ At(p, "probe") /\ proc[p].id = id
  /\ proc[p].ep \in {"org_pr_user", "org_pr", "org_bill"} /\ proc[p].org = org
  /\ proc'[p].hit /\ proc'[p].result.grossQuantity > 0

\* the step of handler p is the auto-detection of refreshAccount for account
\* id, read without a billing_org and with org as its only organization
SoleOrg(p, id, org) ==
  /\ At(p, "getUser") /\ proc[p].id = id
  /\ proc[p].acc.billing_org = "" /\ proc[p].acc.github_orgs = << org >>
  /\ proc'[p].pc = "getUserOrgs"

BillingOrgChanged(id) ==
  /\ id \in DOMAIN accounts /\ id \in DOMAIN accounts'
  /\ accounts'[id].billing_org # accounts[id].billing_org

\* C39 as claimed: a refresh changes an account's billing_org only to an
\* organization one of whose endpoints returned grossQuantity > 0 during that
\* refresh, and leaves it unchanged in every other case
C39_BillingOrgOnlyFromUsage ==
  [][\A id \in AccountIds :
       BillingOrgChanged(id)
         => \E p \in Procs : FoundUsage(p, id, accounts'[id].billing_org)]_vars

\* C39 amended: a refresh changes an account's billing_org only (a) to a
\* scanned organization one of whose endpoints returned grossQuantity > 0
\* during that refresh, when the refresh ran without a billing_org, or (b) to
\* the only organization of the account's github_orgs, when the account was
\* read without a billing_org; in every other case billing_org is unchanged
C39_BillingOrgFromUsageOrSoleOrg ==
  [][\A id \in AccountIds :
       BillingOrgChanged(id)
         => \E p \in Procs :
              \/ /\ FoundUsage(p, id, accounts'[id].billing_org)
                 /\ proc[p].scan /\ proc[p].billingOrg = ""
              \/ SoleOrg(p, id, accounts'[id].billing_org)]_vars

\* a refresh has given an account without a billing_org its only
\* organization, before any endpoint was asked
C39_Witness ==
  \E p \in Procs :
    /\ At(p, "getUserOrgs") /\ proc[p].calls = << >>
    /\ proc[p].acc.billing_org = "" /\ Len(proc[p].acc.github_orgs) = 1
    /\ accounts[proc[p].id].billing_org = proc[p].acc.github_orgs[1]


\* ------------------------------------------------- the stored token's expiry
\* the stored access token of account id is replaced by this step
TokenReplaced(id) ==
  /\ id \in DOMAIN accounts /\ id \in DOMAIN accounts'
  /\ decrypt(accounts'[id].pat_token) # decrypt(accounts[id].pat_token)

\* C40: an operation that replaces the stored access token of a claude_web
\* account stores the expiry of the new token with it: the expiry the token
\* endpoint gave for it, or 0 when the token came without one
C40_ExpiryOfStoredToken ==
  [][\A p \in Procs :
       LET id == proc[p].id
       IN (proc'[p] # proc[p] /\ TokenReplaced(id))
            => /\ At(p, "editVerify")
                  => accounts'[id].claude_token_expires_at = proc[p].tkn.expiresAt
               /\ At(p, "exchange")
                  => accounts'[id].claude_token_expires_at = proc'[p].tkn.expiresAt]_vars


\* ------------------------------------------------------ pause during a tick
\* C37: when a tick that is in progress comes to an account and starts its
\* refresh, the account is not paused in the accounts table at that moment:
\* a pause made after the tick began and before the tick reached the account
\* keeps the tick from refreshing it
C37_PauseSeenByTick ==
  [][LET l == proc["tick"]
         after == proc'["tick"].attempted
     IN (l.kind = "tick" /\ l.pc \notin {"idle", "done"}
           /\ Len(after) > Len(l.attempted))
          => ~accounts[after[Len(after)]].is_paused]_vars


\* --------------------------------------------------------- the persist step
\* the history rows whose detail rows this step has changed
DetailsTouched ==
  { h \in { r.id : r \in usage_history \cup usage_history' } :
      DetailModels(h)' # DetailModels(h) }

\* C34: the persist step of a Copilot refresh is one uninterrupted step: a
\* step that writes usage_history or usage_detail is the step of one handler,
\* no other handler moves in it, and the detail rows it leaves under the
\* history row it wrote to are the per-model rows of that handler's one fetch
\* result, all of them and nothing else
C34_PersistIsAtomic ==
  [][(usage_detail' # usage_detail \/ usage_history' # usage_history)
       => \E p \in Procs :
            /\ At(p, "probe") /\ proc'[p] # proc[p]
            /\ \A q \in Procs \ {p} : proc'[q] = proc[q]
            /\ \A h \in DetailsTouched :
                 /\ proc'[p].hit
                 /\ DetailModels(h)' = proc'[p].result.models]_vars

\* two refreshes of the same account have both persisted a result with a
\* model breakdown, the two breakdowns differ, and the detail rows are those
\* of the refresh that persisted last
C34_Witness ==
  \E p, q \in Procs :
    /\ Raced(p, q) /\ lastFetch = p
    /\ proc[p].hit /\ proc[q].hit
    /\ proc[p].result.models # << >> /\ proc[q].result.models # << >>
    /\ proc[p].result.models # proc[q].result.models
    /\ DetailModels(RowOf(proc[p].id, proc[p].year, proc[p].month).id)
         = proc[p].result.models


\* ------------------------------------------------------------ refresh-all
\* C38: a manual refresh-all brings every non-paused account to
\* refreshAccount: the rate limiter rejects none of the requests of the run,
\* neither POST /refresh-all (0) nor the POST /refresh/:id of any account
C38_NoneRejected == pool.rejected = {}


\* ------------------------------------------------------- one run at a time
\* a run of autoRefreshAll is between its first and its last account
Iterating(p) == proc[p].kind = "tick" /\ proc[p].pc \notin {"idle", "done"}

\* C36: at most one run of autoRefreshAll is iterating the accounts at any
\* time: no run starts while an earlier one is still iterating
C36_OneRunAtATime == ~(Iterating("tick") /\ Iterating("tick2"))


\* ------------------------------------------------------ the token that is sent
\* C35: a refresh token that goes to the token endpoint is the one stored for
\* the account when the refresh hands it to getValidToken: no refresh, of the
\* scheduler or of a request, sends a refresh token that an earlier rotation
\* has already replaced in storage
C35_SendsStoredToken ==
  \A p \in Procs : At(p, "exchange") => ~proc[p].gvt.replaced


\* ------------------------------------------------- no lock around a refresh
\* handler p is awaiting a call of its refresh of account id
Refreshing(p, id) == proc[p].id = id /\ Waiting(p)

\* C33: nothing excludes two refreshes of one account: a POST /refresh/:id
\* that arrives while the scheduler's tick is refreshing the same account
\* (which has a key) is not turned away or held back, it starts its own
\* refresh at once, so that both are in flight
C33_NoRefreshLock ==
  [][\A id \in DOMAIN accounts :
       ( /\ At("req1", "idle") /\ proc'["req1"].kind = "refresh"
         /\ proc'["req1"].id = id
         /\ proc["tick"].kind = "tick" /\ Refreshing("tick", id)
         /\ decrypt(accounts[id].pat_token) # 0 )
       => /\ Refreshing("req1", id)'
          /\ Refreshing("tick", id)']_vars

\* the tick and a manual request are both in the middle of a refresh of the
\* same account
C33_Witness ==
  \E id \in DOMAIN accounts :
    /\ proc["tick"].kind = "tick" /\ Refreshing("tick", id)
    /\ proc["req1"].kind = "refresh" /\ Refreshing("req1", id)


\* ------------------------------------------------------ the rows of an account
\* what the tables hold for account id: its row, its usage_history rows and
\* the usage_detail rows under them
Holding(db, id) ==
  LET rows == { r \in db.usage_history : r.account_id = id }
  IN [account |-> getAccountById(db, id),
      history |-> rows,
      detail |-> SelectSeq(db.usage_detail,
                           LAMBDA d : d.history_id \in { r.id : r \in rows })]

\* C31: a step of a refresh of account A changes nothing that the tables hold
\* for another account B: not B's row, not B's usage_history rows, not the
\* usage_detail rows under them; and it changes no local of another handler
C31_OtherRowsUntouched ==
  [][\A p \in Procs :
       proc'[p] # proc[p]
         => /\ \A b \in DOMAIN accounts \ {proc[p].id} :
                 Holding(DB, b)' = Holding(DB, b)
            /\ \A q \in Procs \ {p} : proc'[q] = proc[q]]_vars

\* the tick and a manual request are refreshing different accounts at the same
\* time, and both accounts have a usage_history row, one of them with detail
\* rows under it
C31_Witness ==
  \E a, b \in DOMAIN accounts :
    /\ a # b
    /\ proc["tick"].kind = "tick" /\ Refreshing("tick", a)
    /\ proc["req1"].kind = "refresh" /\ Refreshing("req1", b)
    /\ Holding(DB, a).history # {} /\ Holding(DB, b).history # {}
    /\ Holding(DB, a).detail # << >> \/ Holding(DB, b).detail # << >>


\* ------------------------------------------------- a failed Claude usage fetch
\* the step of handler p ends the usage fetch of a claude_code or claude_web
\* account whose provider calls failed, and with it the request
FetchFailed(p) ==
  /\ At(p, "claudeUsage") \/ At(p, "webUsage")
  /\ proc'[p].pc = "done" /\ proc'[p].id = proc[p].id
  /\ ProviderFailed(proc'[p])

\* C32: a failed usage fetch of a claude_code or claude_web account writes
\* nothing: it leaves usage_history and usage_detail as they were, and it
\* changes no local of a handler that is refreshing another account
C32_FailureWritesNothing ==
  [][\A p \in Procs :
       FetchFailed(p)
         => /\ usage_history' = usage_history
            /\ usage_detail' = usage_detail
            /\ \A q \in Procs \ {p} : proc'[q] = proc[q]]_vars

====
